---- MODULE Spec2Model ----
(***************************************************************************)
(* State-machine model of the caching core of my-agent and of its tools:   *)
(*   - PersistentMemoryStore, SentimentDataStore.smart_query and            *)
(*     analyze_news_headline (app/sub_agents/news_sentiment_agent/tools.py) *)
(*   - BigQueryDataLoader and analyze_bond_volatility                       *)
(*     (app/sub_agents/event_impact_agent/tools.py)                         *)
(*   - simulate_bond_risk (app/sub_agents/simulation_agent/tools.py)        *)
(*   - publish_alert_event (app/sub_agents/realtime_alerts/tools.py)       *)
(*   - clean_price_dataframe (app/sub_agents/data_orchestrator/tools.py)   *)
(* Time is counted in whole minutes.  Python dicts are functions whose      *)
(* DOMAIN is the set of keys present; Python None is the string "None"; an *)
(* Optional[dict] is a sequence, <<>> for None and <<d>> for the dict d.   *)
(***************************************************************************)
EXTENDS Integers, Sequences, FiniteSets, TLC

\* ---------------------------------------------------------------- bounds
MaxTime == 2        \* the clock runs from 0 to MaxTime minutes
MaxCalls == 3       \* handler calls on the store in one run of Spec
MaxCacheCalls == 4  \* handler calls on the store in one run of CacheSpec
MaxFlushCalls == 6  \* handler calls on the store in one run of FlushSpec
MaxThreadCalls == 2 \* handler calls made by each thread in one run of ConcSpec
MaxLoaderCalls == 3 \* calls on the data loader in one run of LoaderSpec
MaxQueries == 2     \* smart_query calls in one run of SentimentSpec
MaxHeadlineCalls == 6 \* store calls after which HeadlineSpec starts no tool call
MaxBatch == 3       \* tenors in one simulate_bond_risk request
MaxPriceRows == 3   \* rows of the frame passed to clean_price_dataframe
MaxRetryCalls == 5  \* calls on the store in one run of RetrySpec

\* ------------------------------------------------------- program constants
\* Mutant of SaveThreshold: the period test_memory_persistence.py expects.
SaveThreshold_Test == 3 + 2

SaveThreshold == 3  \* "if self._operations_since_save >= 3"

\* ------------------------------------------------------------ input sets
Keys == {"k1", "k2"}
Values == {"v1", "v2"}
TTLs == {1, 2}
Tickers == {"AAPL", "MSFT"}
Insights == {"i1"}

None == "None"

EmptyDict == [x \in {} |-> None]

Put(d, k, e) == [x \in (DOMAIN d) \cup {k} |-> IF x = k THEN e ELSE d[x]]

VARIABLES
    now,                    \* datetime.now(), in minutes
    fs_present,             \* self.fs / self.memory_file are set
    gcs_up,                 \* the durable tier accepts reads and writes
    durable,                \* the document at memory_file
    memory,                 \* self.memory
    _in_memory_cache,        \* self._in_memory_cache
    _dirty,                  \* self._dirty
    _operations_since_save,  \* self._operations_since_save
    ret,                    \* value returned by the last handler call
    raised,                 \* the last handler call propagated an exception
    last_call,              \* the last handler call, its arguments and its time
    prev_call,              \* the handler call before it
    save_outcome,           \* what save_memory did within the last call
    calls,                  \* history: handler calls since construction
    mutations,              \* history: mutating calls since construction
    explicit_saves,         \* history: direct save_memory calls
    failed_saves,           \* history: save attempts that did not persist
    unflushed,              \* history: changes of self.memory since the last
                            \* successful save (or since construction)
    pending_ops             \* history: mutating calls since the last successful save

storeVars == <<now, fs_present, gcs_up, durable, memory, _in_memory_cache,
               _dirty, _operations_since_save, ret, raised, last_call, prev_call,
               save_outcome, calls, mutations, explicit_saves, failed_saves,
               unflushed, pending_ops>>

\* Threads calling the handlers of the module-level store at the same time.
VARIABLES
    pc,         \* the statement each thread is about to run ("idle": no call)
    cur,        \* the call each thread is running
    tmp,        \* the counter value a thread has read for its += 1
    snap,       \* the memory a thread's json.dump has serialized
    snap_ids,   \* history: the calls whose mutation is in that snapshot
    applied,    \* history: the calls whose mutation has been made
    durable_ids,\* history: the calls whose mutation is in the durable document
    completed,  \* history: the calls that have returned
    started     \* history: calls begun by each thread

concVars == <<pc, cur, tmp, snap, snap_ids, applied, durable_ids, completed, started>>

\* BigQueryDataLoader
VARIABLES
    _memory_cache,      \* self._memory_cache: cache key -> rows
    _cache_metadata,    \* self._cache_metadata: cache key -> time cached
    loader_ret,        \* what the last loader call returned, and from where
    loader_last,       \* the last loader call and its arguments
    loader_calls       \* history: loader calls since construction

loaderVars == <<_memory_cache, _cache_metadata, loader_ret, loader_last, loader_calls>>

\* The tool functions built on the store and the loader, and the simulation tool.
VARIABLES
    _query_count,   \* data_store._query_count
    tool_last,      \* the last sentiment tool call and what it met
    tool_prev,      \* the sentiment tool call before it
    tool_ret,       \* the dictionary it returned
    bond_call,      \* the analyze_bond_volatility call: arguments and data
    bond_ret,       \* the dictionary it returned
    sim_call,       \* the simulate_bond_risk call: arguments and outcomes
    sim_ret,        \* the dictionary it returned
    sim_prev,       \* what the same call returned the time before
    alert_call,     \* the publish_alert_event call: the alert, config and sinks
    alert_ret,      \* the event it returned, or the exception it raised
    clean_call,     \* the clean_price_dataframe call: the frame passed
    clean_ret       \* the frame it returned

sentimentVars == <<_query_count, tool_last, tool_prev, tool_ret>>
bondVars == <<bond_call, bond_ret>>
simVars == <<sim_call, sim_ret, sim_prev>>
alertVars == <<alert_call, alert_ret>>
cleanVars == <<clean_call, clean_ret>>

toolVars == <<sentimentVars, bondVars, simVars, alertVars, cleanVars>>

\* The variables of the other components, which the store's handlers leave alone.
notStoreVars == <<concVars, loaderVars, toolVars>>

vars == <<storeVars, concVars, loaderVars, toolVars>>

\* ------------------------------------------------- PersistentMemoryStore

\* _init_empty_memory: the fields the store's handlers read or write.
_init_empty_memory ==
    [query_cache |-> EmptyDict,
     analyzed_tickers |-> EmptyDict,
     insights |-> <<>>,
     unique_tickers_analyzed |-> 0,
     cache_hits |-> 0,
     last_updated |-> 0]

\* A document left by an earlier session: one cached query, written at 0.
EarlierDoc ==
    [_init_empty_memory EXCEPT
        !.query_cache = Put(EmptyDict, "k1",
                            [result |-> "v1", cached_at |-> 0, ttl_minutes |-> 1])]

\* The object at memory_file: absent, a document, or a document cut short by
\* a write that raised (json.load raises on it).
NoDoc == [status |-> "absent", doc |-> _init_empty_memory]
Corrupt == [status |-> "corrupt", doc |-> _init_empty_memory]
Doc(m) == [status |-> "doc", doc |-> m]

\* _load_memory: the document, or an empty memory when there is no durable
\* tier, no document, or the read raises.
_load_memory(fs, up, file) ==
    IF ~fs THEN _init_empty_memory
    ELSE IF ~up THEN _init_empty_memory
    ELSE IF file.status = "absent" THEN _init_empty_memory
    ELSE IF file.status = "corrupt" THEN _init_empty_memory
    ELSE file.doc

NoCall == [op |-> "init", arg |-> None, val |-> None, ttl |-> 0, at |-> 0]

Call(op, arg, val, ttl) == [op |-> op, arg |-> arg, val |-> val, ttl |-> ttl, at |-> now]

StoreInit ==
    /\ now = 0
    /\ fs_present \in BOOLEAN
    /\ gcs_up \in BOOLEAN
    /\ durable \in {NoDoc, Doc(EarlierDoc)}
    /\ (~fs_present => gcs_up /\ durable = NoDoc)
    /\ memory = _load_memory(fs_present, gcs_up, durable)
    /\ _in_memory_cache = EmptyDict
    /\ _dirty = FALSE
    /\ _operations_since_save = 0
    /\ ret = <<>>
    /\ raised = FALSE
    /\ last_call = NoCall
    /\ prev_call = NoCall
    /\ save_outcome = "not_attempted"
    /\ calls = 0
    /\ mutations = 0
    /\ explicit_saves = 0
    /\ failed_saves = 0
    /\ unflushed = 0
    /\ pending_ops = 0

\* Mutant of save_memory: a write that raised still clears the flag and counter.
save_memory_ResetOnFailure(force, m, dty, cnt, u, p) ==
    IF ~dty /\ ~force
    THEN /\ memory' = m
         /\ _dirty' = dty
         /\ _operations_since_save' = cnt
         /\ UNCHANGED <<durable, failed_saves>>
         /\ unflushed' = u
         /\ pending_ops' = p
         /\ save_outcome' = "noop"
         /\ raised' = FALSE
    ELSE IF ~fs_present
    THEN /\ memory' = m
         /\ _dirty' = dty
         /\ _operations_since_save' = cnt
         /\ UNCHANGED durable
         /\ failed_saves' = failed_saves + 1
         /\ unflushed' = u
         /\ pending_ops' = p
         /\ save_outcome' = "unavailable"
         /\ raised' = FALSE
    ELSE /\ memory' = [m EXCEPT !.last_updated = now]
         /\ durable' \in (IF gcs_up THEN {Doc(memory')} ELSE {durable, Corrupt})
         /\ _dirty' = FALSE
         /\ _operations_since_save' = 0
         /\ failed_saves' = IF gcs_up THEN failed_saves ELSE failed_saves + 1
         /\ unflushed' = IF gcs_up THEN 0 ELSE u
         /\ pending_ops' = IF gcs_up THEN 0 ELSE p
         /\ save_outcome' = IF gcs_up THEN "ok" ELSE "failed"
         /\ raised' = FALSE

\* Mutant of save_memory: the force argument is ignored.
save_memory_IgnoreForce(force, m, dty, cnt, u, p) ==
    IF ~dty
    THEN /\ memory' = m
         /\ _dirty' = dty
         /\ _operations_since_save' = cnt
         /\ UNCHANGED <<durable, failed_saves>>
         /\ unflushed' = u
         /\ pending_ops' = p
         /\ save_outcome' = "noop"
         /\ raised' = FALSE
    ELSE IF ~fs_present
    THEN /\ memory' = m
         /\ _dirty' = dty
         /\ _operations_since_save' = cnt
         /\ UNCHANGED durable
         /\ failed_saves' = failed_saves + 1
         /\ unflushed' = u
         /\ pending_ops' = p
         /\ save_outcome' = "unavailable"
         /\ raised' = FALSE
    ELSE IF gcs_up
    THEN /\ memory' = [m EXCEPT !.last_updated = now]
         /\ durable' = Doc(memory')
         /\ _dirty' = FALSE
         /\ _operations_since_save' = 0
         /\ UNCHANGED failed_saves
         /\ unflushed' = 0
         /\ pending_ops' = 0
         /\ save_outcome' = "ok"
         /\ raised' = FALSE
    ELSE /\ memory' = [m EXCEPT !.last_updated = now]
         /\ durable' \in {durable, Corrupt}
         /\ _dirty' = dty
         /\ _operations_since_save' = cnt
         /\ failed_saves' = failed_saves + 1
         /\ unflushed' = u
         /\ pending_ops' = p
         /\ save_outcome' = "failed"
         /\ raised' = FALSE

\* save_memory(force), run on the memory m, flag dty and counter cnt that the
\* caller has just produced; u and p are the history counters to keep when
\* nothing is persisted.  Every exception of the write is caught.
save_memory(force, m, dty, cnt, u, p) ==
    IF ~dty /\ ~force
    THEN /\ memory' = m
         /\ _dirty' = dty
         /\ _operations_since_save' = cnt
         /\ UNCHANGED <<durable, failed_saves>>
         /\ unflushed' = u
         /\ pending_ops' = p
         /\ save_outcome' = "noop"
         /\ raised' = FALSE
    ELSE IF ~fs_present
    THEN /\ memory' = m
         /\ _dirty' = dty
         /\ _operations_since_save' = cnt
         /\ UNCHANGED durable
         /\ failed_saves' = failed_saves + 1
         /\ unflushed' = u
         /\ pending_ops' = p
         /\ save_outcome' = "unavailable"
         /\ raised' = FALSE
    ELSE IF gcs_up
    THEN /\ memory' = [m EXCEPT !.last_updated = now]
         /\ durable' = Doc(memory')
         /\ _dirty' = FALSE
         /\ _operations_since_save' = 0
         /\ UNCHANGED failed_saves
         /\ unflushed' = 0
         /\ pending_ops' = 0
         /\ save_outcome' = "ok"
         /\ raised' = FALSE
    ELSE /\ memory' = [m EXCEPT !.last_updated = now]
         /\ durable' \in {durable, Corrupt}
         /\ _dirty' = dty
         /\ _operations_since_save' = cnt
         /\ failed_saves' = failed_saves + 1
         /\ unflushed' = u
         /\ pending_ops' = p
         /\ save_outcome' = "failed"
         /\ raised' = FALSE

\* Mutant of MarkAndMaybeSave: the threshold test is = instead of >=.
MarkAndMaybeSave_Eq(m) ==
    IF _operations_since_save + 1 = SaveThreshold
    THEN save_memory(FALSE, m, TRUE, _operations_since_save + 1,
                    unflushed + 1, pending_ops + 1)
    ELSE /\ memory' = m
         /\ _dirty' = TRUE
         /\ _operations_since_save' = _operations_since_save + 1
         /\ unflushed' = unflushed + 1
         /\ pending_ops' = pending_ops + 1
         /\ save_outcome' = "not_attempted"
         /\ raised' = FALSE
         /\ UNCHANGED <<durable, failed_saves>>

\* Mutant of MarkAndMaybeSave: the threshold test is > instead of >=.
MarkAndMaybeSave_Gt(m) ==
    IF _operations_since_save + 1 > SaveThreshold
    THEN save_memory(FALSE, m, TRUE, _operations_since_save + 1,
                    unflushed + 1, pending_ops + 1)
    ELSE /\ memory' = m
         /\ _dirty' = TRUE
         /\ _operations_since_save' = _operations_since_save + 1
         /\ unflushed' = unflushed + 1
         /\ pending_ops' = pending_ops + 1
         /\ save_outcome' = "not_attempted"
         /\ raised' = FALSE
         /\ UNCHANGED <<durable, failed_saves>>

\* The tail shared by add_analysis, cache_query and add_insight: mark dirty,
\* count the operation, save when the counter reaches the threshold.
MarkAndMaybeSave(m) ==
    IF _operations_since_save + 1 >= SaveThreshold
    THEN save_memory(FALSE, m, TRUE, _operations_since_save + 1,
                    unflushed + 1, pending_ops + 1)
    ELSE /\ memory' = m
         /\ _dirty' = TRUE
         /\ _operations_since_save' = _operations_since_save + 1
         /\ unflushed' = unflushed + 1
         /\ pending_ops' = pending_ops + 1
         /\ save_outcome' = "not_attempted"
         /\ raised' = FALSE
         /\ UNCHANGED <<durable, failed_saves>>

\* Mutant of cache_query: an entry already in the fast tier is kept.
cache_query_KeepFirst(k, v, ttl) ==
    /\ LET cache_entry == [result |-> v, cached_at |-> now, ttl_minutes |-> ttl]
       IN /\ _in_memory_cache' = IF k \in DOMAIN _in_memory_cache
                                 THEN _in_memory_cache
                                 ELSE Put(_in_memory_cache, k, cache_entry)
          /\ MarkAndMaybeSave(
                [memory EXCEPT !.query_cache = Put(memory.query_cache, k, cache_entry)])
    /\ ret' = <<>>
    /\ last_call' = Call("cache_query", k, v, ttl)
    /\ prev_call' = last_call
    /\ calls' = calls + 1
    /\ mutations' = mutations + 1
    /\ UNCHANGED <<now, fs_present, gcs_up, explicit_saves>>
    /\ UNCHANGED notStoreVars

\* cache_query(query_key, result, ttl_minutes)
cache_query(k, v, ttl) ==
    /\ LET cache_entry == [result |-> v, cached_at |-> now, ttl_minutes |-> ttl]
       IN /\ _in_memory_cache' = Put(_in_memory_cache, k, cache_entry)
          /\ MarkAndMaybeSave(
                [memory EXCEPT !.query_cache = Put(memory.query_cache, k, cache_entry)])
    /\ ret' = <<>>
    /\ last_call' = Call("cache_query", k, v, ttl)
    /\ prev_call' = last_call
    /\ calls' = calls + 1
    /\ mutations' = mutations + 1
    /\ UNCHANGED <<now, fs_present, gcs_up, explicit_saves>>
    /\ UNCHANGED notStoreVars

Analyses == {"a1"}

\* add_analysis(ticker, analysis)
add_analysis(ticker, analysis) ==
    /\ LET tickers0 == IF ticker \in DOMAIN memory.analyzed_tickers
                       THEN memory.analyzed_tickers
                       ELSE Put(memory.analyzed_tickers, ticker, <<>>)
           entry == [timestamp |-> now, analysis |-> analysis]
           tickers1 == [tickers0 EXCEPT ![ticker] = Append(@, entry)]
       IN MarkAndMaybeSave(
             [memory EXCEPT !.analyzed_tickers = tickers1,
                            !.unique_tickers_analyzed = Cardinality(DOMAIN tickers1)])
    /\ ret' = <<>>
    /\ last_call' = Call("add_analysis", ticker, analysis, 0)
    /\ prev_call' = last_call
    /\ calls' = calls + 1
    /\ mutations' = mutations + 1
    /\ UNCHANGED <<now, fs_present, gcs_up, _in_memory_cache, explicit_saves>>
    /\ UNCHANGED notStoreVars

\* add_insight(insight)
add_insight(insight) ==
    /\ LET entry == [timestamp |-> now, category |-> "general", insight |-> insight]
       IN MarkAndMaybeSave([memory EXCEPT !.insights = Append(@, entry)])
    /\ ret' = <<>>
    /\ last_call' = Call("add_insight", insight, None, 0)
    /\ prev_call' = last_call
    /\ calls' = calls + 1
    /\ mutations' = mutations + 1
    /\ UNCHANGED <<now, fs_present, gcs_up, _in_memory_cache, explicit_saves>>
    /\ UNCHANGED notStoreVars

\* The value get_cached_query(k) returns in the current state.
CachedQueryResult(k) ==
    IF k \in DOMAIN _in_memory_cache THEN <<_in_memory_cache[k]>>
    ELSE IF k \in DOMAIN memory.query_cache THEN <<memory.query_cache[k]>>
    ELSE <<>>

\* Mutant of get_cached_query: a durable-tier hit is returned but not promoted.
get_cached_query_NoPromote(k) ==
    /\ ret' = CachedQueryResult(k)
    /\ IF k \in DOMAIN _in_memory_cache \/ k \in DOMAIN memory.query_cache
       THEN /\ memory' = [memory EXCEPT !.cache_hits = @ + 1]
            /\ unflushed' = unflushed + 1
            /\ UNCHANGED _in_memory_cache
       ELSE UNCHANGED <<memory, _in_memory_cache, unflushed>>
    /\ raised' = FALSE
    /\ save_outcome' = "not_attempted"
    /\ last_call' = Call("get_cached_query", k, None, 0)
    /\ prev_call' = last_call
    /\ calls' = calls + 1
    /\ UNCHANGED <<now, fs_present, gcs_up, durable, _dirty, _operations_since_save,
                   mutations, explicit_saves, failed_saves, pending_ops>>
    /\ UNCHANGED notStoreVars

\* get_cached_query(query_key)
get_cached_query(k) ==
    /\ ret' = CachedQueryResult(k)
    /\ IF k \in DOMAIN _in_memory_cache
       THEN /\ memory' = [memory EXCEPT !.cache_hits = @ + 1]
            /\ unflushed' = unflushed + 1
            /\ UNCHANGED _in_memory_cache
       ELSE IF k \in DOMAIN memory.query_cache
       THEN /\ _in_memory_cache' = Put(_in_memory_cache, k, memory.query_cache[k])
            /\ memory' = [memory EXCEPT !.cache_hits = @ + 1]
            /\ unflushed' = unflushed + 1
       ELSE UNCHANGED <<memory, _in_memory_cache, unflushed>>
    /\ raised' = FALSE
    /\ save_outcome' = "not_attempted"
    /\ last_call' = Call("get_cached_query", k, None, 0)
    /\ prev_call' = last_call
    /\ calls' = calls + 1
    /\ UNCHANGED <<now, fs_present, gcs_up, durable, _dirty, _operations_since_save,
                   mutations, explicit_saves, failed_saves, pending_ops>>
    /\ UNCHANGED notStoreVars

\* A direct call of save_memory (save_persistent_memory calls it with force).
SaveMemoryCall(force) ==
    /\ save_memory(force, memory, _dirty, _operations_since_save, unflushed, pending_ops)
    /\ ret' = <<>>
    /\ last_call' = Call("save_memory", IF force THEN "force" ELSE None, None, 0)
    /\ prev_call' = last_call
    /\ calls' = calls + 1
    /\ explicit_saves' = explicit_saves + 1
    /\ UNCHANGED <<now, fs_present, gcs_up, _in_memory_cache, mutations>>
    /\ UNCHANGED notStoreVars

\* The clock advances by one minute.
Tick ==
    /\ now < MaxTime
    /\ now' = now + 1
    /\ UNCHANGED <<fs_present, gcs_up, durable, memory, _in_memory_cache, _dirty,
                   _operations_since_save, ret, raised, last_call, prev_call,
                   save_outcome, calls, mutations, explicit_saves, failed_saves,
                   unflushed, pending_ops>>
    /\ UNCHANGED notStoreVars

\* The durable tier becomes unreachable, or reachable again.
GcsToggle ==
    /\ fs_present
    /\ gcs_up' = ~gcs_up
    /\ UNCHANGED <<now, fs_present, durable, memory, _in_memory_cache, _dirty,
                   _operations_since_save, ret, raised, last_call, prev_call,
                   save_outcome, calls, mutations, explicit_saves, failed_saves,
                   unflushed, pending_ops>>
    /\ UNCHANGED notStoreVars

\* ------------------------------------ the store called from several threads
\* The handlers take no lock, so the statements of two calls interleave.  A
\* step is one statement; "self._operations_since_save += 1" is a read and a
\* write.  json.dump is taken as one step.

Threads == {"t1", "t2"}

NoThreadCall == [kind |-> "none", arg |-> None, id |-> <<"none", 0>>]

ConcInit ==
    /\ pc = [t \in Threads |-> "idle"]
    /\ cur = [t \in Threads |-> NoThreadCall]
    /\ tmp = [t \in Threads |-> 0]
    /\ snap = [t \in Threads |-> _init_empty_memory]
    /\ snap_ids = [t \in Threads |-> {}]
    /\ applied = {}
    /\ durable_ids = {}
    /\ completed = {}
    /\ started = [t \in Threads |-> 0]

\* The history variables of the one-call-at-a-time model.
seqHist == <<ret, raised, last_call, prev_call, save_outcome, calls, mutations,
             explicit_saves, failed_saves, unflushed, pending_ops>>

Goto(t, label) == pc' = [pc EXCEPT ![t] = label]

\* The call returns.
Return(t) ==
    /\ pc' = [pc EXCEPT ![t] = "idle"]
    /\ completed' = completed \cup {cur[t]}

\* A thread enters cache_query, add_analysis or add_insight.
Begin(t, kind, arg) ==
    /\ pc[t] = "idle"
    /\ started[t] < MaxThreadCalls
    /\ started' = [started EXCEPT ![t] = @ + 1]
    /\ cur' = [cur EXCEPT ![t] = [kind |-> kind, arg |-> arg, id |-> <<t, started[t] + 1>>]]
    /\ Goto(t, CASE kind = "cache_query" -> "cq_memory"
                 [] kind = "add_analysis" -> "aa_check"
                 [] OTHER -> "ai_append")
    /\ UNCHANGED <<storeVars, tmp, snap, snap_ids, applied, durable_ids, completed>>
    /\ UNCHANGED <<loaderVars, toolVars>>

ThreadEntry(t) == [result |-> "v1", cached_at |-> now, ttl_minutes |-> 1]

\* cache_query: self.memory["query_cache"][query_key] = cache_entry
CqMemory(t) ==
    /\ pc[t] = "cq_memory"
    /\ memory' = [memory EXCEPT !.query_cache = Put(@, cur[t].arg, ThreadEntry(t))]
    /\ applied' = applied \cup {cur[t].id}
    /\ Goto(t, "cq_fast")
    /\ UNCHANGED <<now, fs_present, gcs_up, durable, _in_memory_cache, _dirty,
                   _operations_since_save, seqHist>>
    /\ UNCHANGED <<cur, tmp, snap, snap_ids, durable_ids, completed, started>>
    /\ UNCHANGED <<loaderVars, toolVars>>

\* cache_query: self._in_memory_cache[query_key] = cache_entry
CqFast(t) ==
    /\ pc[t] = "cq_fast"
    /\ _in_memory_cache' = Put(_in_memory_cache, cur[t].arg, ThreadEntry(t))
    /\ Goto(t, "set_dirty")
    /\ UNCHANGED <<now, fs_present, gcs_up, durable, memory, _dirty,
                   _operations_since_save, seqHist>>
    /\ UNCHANGED <<cur, tmp, snap, snap_ids, applied, durable_ids, completed, started>>
    /\ UNCHANGED <<loaderVars, toolVars>>

\* add_analysis: if ticker not in self.memory["analyzed_tickers"]
AaCheck(t) ==
    /\ pc[t] = "aa_check"
    /\ Goto(t, IF cur[t].arg \in DOMAIN memory.analyzed_tickers
               THEN "aa_append" ELSE "aa_create")
    /\ UNCHANGED <<storeVars, cur, tmp, snap, snap_ids, applied, durable_ids,
                   completed, started>>
    /\ UNCHANGED <<loaderVars, toolVars>>

\* add_analysis: self.memory["analyzed_tickers"][ticker] = []
AaCreate(t) ==
    /\ pc[t] = "aa_create"
    /\ memory' = [memory EXCEPT !.analyzed_tickers = Put(@, cur[t].arg, <<>>)]
    /\ Goto(t, "aa_append")
    /\ UNCHANGED <<now, fs_present, gcs_up, durable, _in_memory_cache, _dirty,
                   _operations_since_save, seqHist>>
    /\ UNCHANGED <<cur, tmp, snap, snap_ids, applied, durable_ids, completed, started>>
    /\ UNCHANGED <<loaderVars, toolVars>>

\* add_analysis: self.memory["analyzed_tickers"][ticker].append(entry)
AaAppend(t) ==
    /\ pc[t] = "aa_append"
    /\ memory' = [memory EXCEPT !.analyzed_tickers[cur[t].arg] =
                     Append(@, [timestamp |-> now, analysis |-> "a1"])]
    /\ applied' = applied \cup {cur[t].id}
    /\ Goto(t, "aa_stat")
    /\ UNCHANGED <<now, fs_present, gcs_up, durable, _in_memory_cache, _dirty,
                   _operations_since_save, seqHist>>
    /\ UNCHANGED <<cur, tmp, snap, snap_ids, durable_ids, completed, started>>
    /\ UNCHANGED <<loaderVars, toolVars>>

\* add_analysis: statistics["unique_tickers_analyzed"] = len(analyzed_tickers)
AaStat(t) ==
    /\ pc[t] = "aa_stat"
    /\ memory' = [memory EXCEPT !.unique_tickers_analyzed =
                     Cardinality(DOMAIN memory.analyzed_tickers)]
    /\ Goto(t, "set_dirty")
    /\ UNCHANGED <<now, fs_present, gcs_up, durable, _in_memory_cache, _dirty,
                   _operations_since_save, seqHist>>
    /\ UNCHANGED <<cur, tmp, snap, snap_ids, applied, durable_ids, completed, started>>
    /\ UNCHANGED <<loaderVars, toolVars>>

\* add_insight: self.memory["insights"].append(entry)
AiAppend(t) ==
    /\ pc[t] = "ai_append"
    /\ memory' = [memory EXCEPT !.insights =
                     Append(@, [timestamp |-> now, category |-> "general",
                                insight |-> cur[t].arg])]
    /\ applied' = applied \cup {cur[t].id}
    /\ Goto(t, "set_dirty")
    /\ UNCHANGED <<now, fs_present, gcs_up, durable, _in_memory_cache, _dirty,
                   _operations_since_save, seqHist>>
    /\ UNCHANGED <<cur, tmp, snap, snap_ids, durable_ids, completed, started>>
    /\ UNCHANGED <<loaderVars, toolVars>>

\* self._dirty = True
SetDirty(t) ==
    /\ pc[t] = "set_dirty"
    /\ _dirty' = TRUE
    /\ Goto(t, "load_ops")
    /\ UNCHANGED <<now, fs_present, gcs_up, durable, memory, _in_memory_cache,
                   _operations_since_save, seqHist>>
    /\ UNCHANGED <<cur, tmp, snap, snap_ids, applied, durable_ids, completed, started>>
    /\ UNCHANGED <<loaderVars, toolVars>>

\* self._operations_since_save += 1: the read
LoadOps(t) ==
    /\ pc[t] = "load_ops"
    /\ tmp' = [tmp EXCEPT ![t] = _operations_since_save]
    /\ Goto(t, "store_ops")
    /\ UNCHANGED <<storeVars, cur, snap, snap_ids, applied, durable_ids,
                   completed, started>>
    /\ UNCHANGED <<loaderVars, toolVars>>

\* self._operations_since_save += 1: the write
StoreOps(t) ==
    /\ pc[t] = "store_ops"
    /\ _operations_since_save' = tmp[t] + 1
    /\ Goto(t, "check_ops")
    /\ UNCHANGED <<now, fs_present, gcs_up, durable, memory, _in_memory_cache,
                   _dirty, seqHist>>
    /\ UNCHANGED <<cur, tmp, snap, snap_ids, applied, durable_ids, completed, started>>
    /\ UNCHANGED <<loaderVars, toolVars>>

\* if self._operations_since_save >= 3: self.save_memory()
CheckOps(t) ==
    /\ pc[t] = "check_ops"
    /\ IF _operations_since_save >= SaveThreshold
       THEN Goto(t, "sv_check") /\ UNCHANGED completed
       ELSE Return(t)
    /\ UNCHANGED <<storeVars, cur, tmp, snap, snap_ids, applied, durable_ids, started>>
    /\ UNCHANGED <<loaderVars, toolVars>>

\* save_memory: the two early returns (force is False here)
SvCheck(t) ==
    /\ pc[t] = "sv_check"
    /\ IF ~_dirty \/ ~fs_present
       THEN Return(t)
       ELSE Goto(t, "sv_open") /\ UNCHANGED completed
    /\ UNCHANGED <<storeVars, cur, tmp, snap, snap_ids, applied, durable_ids, started>>
    /\ UNCHANGED <<loaderVars, toolVars>>

\* save_memory: last_updated is set and the file opened; an exception of the
\* open is caught and the call returns.
SvOpen(t) ==
    /\ pc[t] = "sv_open"
    /\ memory' = [memory EXCEPT !.last_updated = now]
    /\ IF gcs_up
       THEN Goto(t, "sv_dump") /\ UNCHANGED completed
       ELSE Return(t)
    /\ UNCHANGED <<now, fs_present, gcs_up, durable, _in_memory_cache, _dirty,
                   _operations_since_save, seqHist>>
    /\ UNCHANGED <<cur, tmp, snap, snap_ids, applied, durable_ids, started>>
    /\ UNCHANGED <<loaderVars, toolVars>>

\* save_memory: json.dump(self.memory, f)
SvDump(t) ==
    /\ pc[t] = "sv_dump"
    /\ snap' = [snap EXCEPT ![t] = memory]
    /\ snap_ids' = [snap_ids EXCEPT ![t] = applied]
    /\ Goto(t, "sv_close")
    /\ UNCHANGED <<storeVars, cur, tmp, applied, durable_ids, completed, started>>
    /\ UNCHANGED <<loaderVars, toolVars>>

\* save_memory: the with block ends, the file is closed and the object written
SvClose(t) ==
    /\ pc[t] = "sv_close"
    /\ durable' = Doc(snap[t])
    /\ durable_ids' = snap_ids[t]
    /\ Goto(t, "sv_clear")
    /\ UNCHANGED <<now, fs_present, gcs_up, memory, _in_memory_cache, _dirty,
                   _operations_since_save, seqHist>>
    /\ UNCHANGED <<cur, tmp, snap, snap_ids, applied, completed, started>>
    /\ UNCHANGED <<loaderVars, toolVars>>

\* save_memory: self._dirty = False
SvClear(t) ==
    /\ pc[t] = "sv_clear"
    /\ _dirty' = FALSE
    /\ Goto(t, "sv_reset")
    /\ UNCHANGED <<now, fs_present, gcs_up, durable, memory, _in_memory_cache,
                   _operations_since_save, seqHist>>
    /\ UNCHANGED <<cur, tmp, snap, snap_ids, applied, durable_ids, completed, started>>
    /\ UNCHANGED <<loaderVars, toolVars>>

\* save_memory: self._operations_since_save = 0, and the call returns
SvReset(t) ==
    /\ pc[t] = "sv_reset"
    /\ _operations_since_save' = 0
    /\ Return(t)
    /\ UNCHANGED <<now, fs_present, gcs_up, durable, memory, _in_memory_cache,
                   _dirty, seqHist>>
    /\ UNCHANGED <<cur, tmp, snap, snap_ids, applied, durable_ids, started>>
    /\ UNCHANGED <<loaderVars, toolVars>>


\* ------------------------------------------------------ BigQueryDataLoader

Tables == {"stock_news", "communications", "a6"}
Wheres == {None, "Symbol = 'AAPL'"}
LoaderTTLs == {1, 2}

\* str as a sequence of characters, for the modelled table names.
Chars(name) ==
    CASE name = "stock_news" ->
            <<"s", "t", "o", "c", "k", "_", "n", "e", "w", "s">>
      [] name = "communications" ->
            <<"c", "o", "m", "m", "u", "n", "i", "c", "a", "t", "i", "o", "n", "s">>
      [] name = "a6" ->
            <<"a", "6">>

\* hashlib.md5(key_string.encode()).hexdigest(), for the key strings of the
\* modelled tables and filters: the digests are the real ones.
Md5Hex(key_string) ==
    CASE key_string = "stock_news:full" ->   \* 2e792f04b72ea6bbb766e9e38e0b2eec
            <<"2", "e", "7", "9", "2", "f", "0", "4", "b", "7", "2", "e", "a", "6", "b", "b",
              "b", "7", "6", "6", "e", "9", "e", "3", "8", "e", "0", "b", "2", "e", "e", "c">>
      [] key_string = "stock_news:Symbol = 'AAPL'" ->   \* ae40e78310a0c4b4ef0a9dd28da6148e
            <<"a", "e", "4", "0", "e", "7", "8", "3", "1", "0", "a", "0", "c", "4", "b", "4",
              "e", "f", "0", "a", "9", "d", "d", "2", "8", "d", "a", "6", "1", "4", "8", "e">>
      [] key_string = "communications:full" ->   \* 15f94df4b50d4cd9e3aa977c9dd90c6e
            <<"1", "5", "f", "9", "4", "d", "f", "4", "b", "5", "0", "d", "4", "c", "d", "9",
              "e", "3", "a", "a", "9", "7", "7", "c", "9", "d", "d", "9", "0", "c", "6", "e">>
      [] key_string = "communications:Symbol = 'AAPL'" ->   \* 1ebabfa132756a6bdfef79f1218eb0a5
            <<"1", "e", "b", "a", "b", "f", "a", "1", "3", "2", "7", "5", "6", "a", "6", "b",
              "d", "f", "e", "f", "7", "9", "f", "1", "2", "1", "8", "e", "b", "0", "a", "5">>
      [] key_string = "30_yr_stock_market_data:full" ->   \* 56a3325dd4d4c60630d830fcbfa8e69c
            <<"5", "6", "a", "3", "3", "2", "5", "d", "d", "4", "d", "4", "c", "6", "0", "6",
              "3", "0", "d", "8", "3", "0", "f", "c", "b", "f", "a", "8", "e", "6", "9", "c">>
      [] key_string = "a6:full" ->   \* a35a1272994493477bea91befbdf9630
            <<"a", "3", "5", "a", "1", "2", "7", "2", "9", "9", "4", "4", "9", "3", "4", "7",
              "7", "b", "e", "a", "9", "1", "b", "e", "f", "b", "d", "f", "9", "6", "3", "0">>
      [] key_string = "a6:Symbol = 'AAPL'" ->   \* c28fadbbfc5f84a514cf27a55f0229ec
            <<"c", "2", "8", "f", "a", "d", "b", "b", "f", "c", "5", "f", "8", "4", "a", "5",
              "1", "4", "c", "f", "2", "7", "a", "5", "5", "f", "0", "2", "2", "9", "e", "c">>

\* table_name in str(k): the sequence sub occurs in the sequence s.
IsSubstring(sub, s) ==
    \E i \in 0..(Len(s) - Len(sub)) : SubSeq(s, i + 1, i + Len(sub)) = sub

\* _get_cache_key: md5 of "<table>:<where or 'full'>"
_get_cache_key(table_name, where_clause) ==
    Md5Hex(table_name \o ":" \o (IF where_clause = None THEN "full" ELSE where_clause))

\* Mutant of _is_cache_valid: an entry whose age equals the TTL is still valid.
_is_cache_valid_Le(cache_key, cache_ttl_minutes) ==
    IF cache_key \notin DOMAIN _cache_metadata THEN FALSE
    ELSE now - _cache_metadata[cache_key] <= cache_ttl_minutes

\* _is_cache_valid
_is_cache_valid(cache_key, cache_ttl_minutes) ==
    IF cache_key \notin DOMAIN _cache_metadata THEN FALSE
    ELSE now - _cache_metadata[cache_key] < cache_ttl_minutes

\* The rows the provider returns for a query: those of the table and filter
\* asked for, as the provider holds them at the time of the query.
ProviderRows(table_name, where_clause) ==
    [table |-> table_name, where |-> where_clause, fetched_at |-> now]

NoRows == [table |-> None, where |-> None, fetched_at |-> 0]
NoLoaderCall == [op |-> "init", table |-> None, where |-> None, use_cache |-> FALSE,
                 ttl |-> 0, at |-> 0]

LoaderInit ==
    /\ _memory_cache = EmptyDict
    /\ _cache_metadata = EmptyDict
    /\ loader_ret = [source |-> "none", rows |-> NoRows]
    /\ loader_last = NoLoaderCall
    /\ loader_calls = 0

\* load_table_from_bigquery(table_name, where_clause, use_cache, cache_ttl_minutes);
\* ok: the provider's query succeeds (else the exception is re-raised).
load_table_from_bigquery(table_name, where_clause, use_cache, cache_ttl_minutes, ok) ==
    LET cache_key == _get_cache_key(table_name, where_clause)
        hit == use_cache /\ cache_key \in DOMAIN _memory_cache
                 /\ _is_cache_valid(cache_key, cache_ttl_minutes)
    IN /\ IF hit
          THEN /\ loader_ret' = [source |-> "cache", rows |-> _memory_cache[cache_key]]
               /\ UNCHANGED <<_memory_cache, _cache_metadata>>
          ELSE IF ok
          THEN /\ loader_ret' = [source |-> "provider",
                                 rows |-> ProviderRows(table_name, where_clause)]
               /\ IF use_cache
                  THEN /\ _memory_cache' = Put(_memory_cache, cache_key,
                                              ProviderRows(table_name, where_clause))
                       /\ _cache_metadata' = Put(_cache_metadata, cache_key, now)
                  ELSE UNCHANGED <<_memory_cache, _cache_metadata>>
          ELSE /\ loader_ret' = [source |-> "raised", rows |-> NoRows]
               /\ UNCHANGED <<_memory_cache, _cache_metadata>>
       /\ loader_last' = [op |-> "load", table |-> table_name, where |-> where_clause,
                          use_cache |-> use_cache, ttl |-> cache_ttl_minutes, at |-> now]
       /\ loader_calls' = loader_calls + 1
       /\ UNCHANGED <<storeVars, concVars, toolVars>>

\* The keys clear_cache(table_name) pops.
keys_to_remove(table_name) ==
    {k \in DOMAIN _memory_cache : IsSubstring(Chars(table_name), k)}

\* clear_cache(table_name); None clears everything.
clear_cache(table_name) ==
    /\ IF table_name # None
       THEN /\ _memory_cache' = [k \in DOMAIN _memory_cache \ keys_to_remove(table_name)
                                   |-> _memory_cache[k]]
            /\ _cache_metadata' = [k \in DOMAIN _cache_metadata \ keys_to_remove(table_name)
                                   |-> _cache_metadata[k]]
       ELSE /\ _memory_cache' = EmptyDict
            /\ _cache_metadata' = EmptyDict
    /\ loader_ret' = [source |-> "none", rows |-> NoRows]
    /\ loader_last' = [op |-> "clear_cache", table |-> table_name, where |-> None,
                       use_cache |-> FALSE, ttl |-> 0, at |-> now]
    /\ loader_calls' = loader_calls + 1
    /\ UNCHANGED <<storeVars, concVars, toolVars>>

\* ------------------------------------ the store's handlers, called in sequence
\* A tool function calls several handlers of the store one after another.
\* The handlers are written here as functions of the store's state S, so that
\* a tool's action can chain them; they are the same code as the actions above.

\* The store as the current state holds it.
StoreNow ==
    [memory |-> memory, fast |-> _in_memory_cache, dirty |-> _dirty,
     ops |-> _operations_since_save, durable |-> durable, failed |-> failed_saves,
     unflushed |-> unflushed, pending |-> pending_ops, outcome |-> "not_attempted",
     ncalls |-> 0, nmut |-> 0, ret |-> <<>>]

\* save_memory(force) on S; torn: a write that raises leaves a cut-short document.
save_memory_on(S, force, torn) ==
    IF ~S.dirty /\ ~force THEN [S EXCEPT !.outcome = "noop"]
    ELSE IF ~fs_present
    THEN [S EXCEPT !.failed = @ + 1, !.outcome = "unavailable"]
    ELSE IF gcs_up
    THEN LET m == [S.memory EXCEPT !.last_updated = now]
         IN [S EXCEPT !.memory = m, !.durable = Doc(m), !.dirty = FALSE, !.ops = 0,
                      !.unflushed = 0, !.pending = 0, !.outcome = "ok"]
    ELSE [S EXCEPT !.memory = [S.memory EXCEPT !.last_updated = now],
                   !.durable = IF torn THEN Corrupt ELSE @,
                   !.failed = @ + 1, !.outcome = "failed"]

\* The tail of the mutating handlers on S, whose memory becomes m.
MarkAndMaybeSave_on(S, m, torn) ==
    LET S1 == [S EXCEPT !.memory = m, !.dirty = TRUE, !.ops = @ + 1,
                        !.unflushed = @ + 1, !.pending = @ + 1,
                        !.ncalls = @ + 1, !.nmut = @ + 1, !.ret = <<>>]
    IN IF S1.ops >= SaveThreshold THEN save_memory_on(S1, FALSE, torn) ELSE S1

\* cache_query(query_key, result, ttl_minutes) on S
cache_query_on(S, k, v, ttl, torn) ==
    LET cache_entry == [result |-> v, cached_at |-> now, ttl_minutes |-> ttl]
        S1 == [S EXCEPT !.fast = Put(@, k, cache_entry)]
    IN MarkAndMaybeSave_on(S1,
          [S.memory EXCEPT !.query_cache = Put(@, k, cache_entry)], torn)

\* add_insight(insight, category) on S
add_insight_on(S, insight, category, torn) ==
    LET entry == [timestamp |-> now, category |-> category, insight |-> insight]
    IN MarkAndMaybeSave_on(S, [S.memory EXCEPT !.insights = Append(@, entry)], torn)

\* get_cached_query(query_key) on S; the value returned is in ret.
get_cached_query_on(S, k) ==
    IF k \in DOMAIN S.fast
    THEN [S EXCEPT !.memory = [S.memory EXCEPT !.cache_hits = @ + 1],
                   !.unflushed = @ + 1, !.ncalls = @ + 1, !.ret = <<S.fast[k]>>]
    ELSE IF k \in DOMAIN S.memory.query_cache
    THEN [S EXCEPT !.fast = Put(@, k, S.memory.query_cache[k]),
                   !.memory = [S.memory EXCEPT !.cache_hits = @ + 1],
                   !.unflushed = @ + 1, !.ncalls = @ + 1,
                   !.ret = <<S.memory.query_cache[k]>>]
    ELSE [S EXCEPT !.ncalls = @ + 1, !.ret = <<>>]

\* The store's variables take the values of S, the state a tool's calls led to.
Commit(S, op, arg) ==
    /\ memory' = S.memory
    /\ _in_memory_cache' = S.fast
    /\ _dirty' = S.dirty
    /\ _operations_since_save' = S.ops
    /\ durable' = S.durable
    /\ failed_saves' = S.failed
    /\ unflushed' = S.unflushed
    /\ pending_ops' = S.pending
    /\ save_outcome' = S.outcome
    /\ calls' = calls + S.ncalls
    /\ mutations' = mutations + S.nmut
    /\ ret' = <<>>
    /\ raised' = FALSE
    /\ last_call' = Call(op, arg, None, 0)
    /\ prev_call' = last_call
    /\ UNCHANGED <<now, fs_present, gcs_up, explicit_saves>>

\* ------------------------------------------------------- SentimentDataStore

\* A row of a news file.
Row(headline, label, stock) == [headline |-> headline, label |-> label, stock |-> stock]

\* What the news files hold when they are read: nothing, or one of two files.
NewsData ==
    { <<>>,
      <<Row("Apple posts record earnings", "positive", "AAPL")>>,
      <<Row("Microsoft shares tumble", "negative", "MSFT"),
        Row("Apple earnings disappoint", "negative", "AAPL")>> }

\* The intents the catalog has files for.
Intents == {"news", "bogus"}

\* Filter dictionaries, as the sequence of their (key, value) pairs in
\* insertion order.
FilterDicts ==
    { <<>>,
      << <<"ticker", "AAPL">> >>,
      << <<"sentiment", "negative">> >>,
      << <<"ticker", "AAPL">>, <<"sentiment", "negative">> >>,
      << <<"sentiment", "negative">>, <<"ticker", "AAPL">> >> }

\* max_rows: Optional[int], <<>> for None and <<n>> for n.
MaxRows == {<<>>, <<1>>}

\* The keys a filter dictionary can hold, in sorted order.
SortedFilterKeys == <<"sentiment", "start_date", "ticker">>

HasKey(filters, key) == \E i \in 1..Len(filters) : filters[i][1] = key
ValueOf(filters, key) == filters[CHOOSE i \in 1..Len(filters) : filters[i][1] = key][2]

\* One "key": "value" item of json.dumps.
JsonItem(key, value) == "\"" \o key \o "\": \"" \o value \o "\""

RECURSIVE JsonItems(_)
\* The items of a sequence of pairs, joined by ", ".
JsonItems(pairs) ==
    IF Len(pairs) = 0 THEN ""
    ELSE IF Len(pairs) = 1 THEN JsonItem(pairs[1][1], pairs[1][2])
    ELSE JsonItem(pairs[1][1], pairs[1][2]) \o ", " \o JsonItems(Tail(pairs))

\* The pairs of a dictionary ordered by key.
SortedPairs(filters) ==
    LET present == SelectSeq(SortedFilterKeys, LAMBDA key : HasKey(filters, key))
    IN [i \in 1..Len(present) |-> <<present[i], ValueOf(filters, present[i])>>]

\* Mutant of json_dumps: the items are written in insertion order.
json_dumps_Unsorted(filters) == "{" \o JsonItems(filters) \o "}"

\* json.dumps(filters, sort_keys=True)
json_dumps(filters) == "{" \o JsonItems(SortedPairs(filters)) \o "}"

\* f"{max_rows}"
FormatMaxRows(max_rows) == IF max_rows = <<>> THEN "None" ELSE ToString(max_rows[1])

\* cache_key = f"{intent}_{json.dumps(filters, sort_keys=True)}_{max_rows}"
SmartQueryKey(intent, filters, max_rows) ==
    intent \o "_" \o json_dumps(filters) \o "_" \o FormatMaxRows(max_rows)

\* get_files_for_intent: the intent has files in the catalog.
get_files_for_intent(intent) == IF intent = "news" THEN <<"news.csv">> ELSE <<>>

\* pd.read_csv(f, nrows=max_rows) when max_rows is set, else the whole file.
ReadCsv(data, max_rows) ==
    IF max_rows = <<>> \/ max_rows[1] = 0 THEN data
    ELSE SubSeq(data, 1, IF Len(data) < max_rows[1] THEN Len(data) ELSE max_rows[1])

\* The filters smart_query applies to the rows of a file.
ApplyFilters(df, filters) ==
    LET byTicker == IF HasKey(filters, "ticker")
                    THEN SelectSeq(df, LAMBDA r : r.stock = ValueOf(filters, "ticker"))
                    ELSE df
    IN IF HasKey(filters, "sentiment")
       THEN SelectSeq(byTicker, LAMBDA r : r.label = ValueOf(filters, "sentiment"))
       ELSE byTicker

\* The rows of a result that smart_query caches: result.head(1000).
CachedRows == 1000

\* df.head(n)
head(df, n) == SubSeq(df, 1, IF Len(df) < n THEN Len(df) ELSE n)

\* A news file of one row more than the cache keeps; the last row is of
\* another stock.
LongFile ==
    [i \in 1..(CachedRows + 1) |->
        Row("Bond yields climb", "neutral", IF i <= CachedRows THEN "AAPL" ELSE "TLT")]

\* smart_query(intent, filters, max_rows) on the store S with query count qc;
\* data: what the files of the intent hold.  The result carries the store
\* after the call, the data frame returned, and whether the cache answered.
smart_query_on(S, qc, intent, filters, max_rows, data, torn) ==
    LET cache_key == SmartQueryKey(intent, filters, max_rows)
        S1 == get_cached_query_on(S, cache_key)
        relevant_files == get_files_for_intent(intent)
        result == ApplyFilters(ReadCsv(data, max_rows), filters)
        cache_data == [data |-> head(result, CachedRows), total_rows |-> Len(result),
                       sources |-> relevant_files, intent |-> intent]
    IN IF Len(S1.ret) = 1
       THEN [S |-> S1, qc |-> qc + 1, df |-> S1.ret[1].result.data,
             cache_key |-> cache_key, from_cache |-> TRUE]
       ELSE IF Len(relevant_files) = 0 \/ Len(result) = 0
       THEN [S |-> S1, qc |-> qc + 1, df |-> <<>>,
             cache_key |-> cache_key, from_cache |-> FALSE]
       ELSE [S |-> cache_query_on(S1, cache_key, cache_data, 30, torn), qc |-> qc + 1,
             df |-> result, cache_key |-> cache_key, from_cache |-> FALSE]

\* smart_query(intent, filters, max_rows), called on data_store.
smart_query(intent, filters, max_rows, data, torn) ==
    LET r == smart_query_on(StoreNow, _query_count, intent, filters, max_rows, data, torn)
    IN /\ Commit(r.S, "smart_query", intent)
       /\ _query_count' = r.qc
       /\ tool_ret' = [status |-> "df", rows |-> r.df]
       /\ tool_last' = [op |-> "smart_query", arg |-> intent, filters |-> filters,
                        max_rows |-> max_rows, cache_key |-> r.cache_key,
                        from_cache |-> r.from_cache]
       /\ tool_prev' = tool_last
       /\ UNCHANGED <<bondVars, simVars, alertVars, cleanVars>>
       /\ UNCHANGED <<concVars, loaderVars>>

\* -------------------------------------------------------- analyze_news_headline

Headlines == {"Apple posts record earnings", "Bond yields climb"}

\* headline.lower().split()[:5], the words longer than 4 characters.
Keywords(headline) ==
    CASE headline = "Apple posts record earnings" -> <<"apple", "posts", "record", "earnings">>
      [] headline = "Bond yields climb" -> <<"yields", "climb">>

\* The keywords a row's headline contains.
WordsOf(headline) ==
    CASE headline = "Apple posts record earnings" -> {"apple", "posts", "record", "earnings"}
      [] headline = "Microsoft shares tumble" -> {"microsoft", "shares", "tumble"}
      [] headline = "Apple earnings disappoint" -> {"apple", "earnings", "disappoint"}

\* matches['label'].value_counts().idxmax(): the most frequent label, the one
\* met first among equals.
MostCommonLabel(matches) ==
    LET count(l) == Cardinality({i \in 1..Len(matches) : matches[i].label = l})
        first == CHOOSE i \in 1..Len(matches) :
                    /\ \A j \in 1..Len(matches) : count(matches[j].label) <= count(matches[i].label)
                    /\ \A j \in 1..(i - 1) : count(matches[j].label) < count(matches[i].label)
    IN matches[first].label

\* The dictionary analyze_news_headline builds on a path that queried the data.
HeadlineResult(status, headline, sentiment, confidence, match_type, qc) ==
    [status |-> status, headline |-> headline, sentiment |-> sentiment,
     confidence |-> confidence, match_type |-> match_type,
     performance |-> [cache_hit |-> FALSE, query_count |-> qc]]

\* analyze_news_headline(headline); data: what the news files hold.
analyze_news_headline(headline, data, torn) ==
    LET cache_key == "headline_" \o headline
        S1 == get_cached_query_on(StoreNow, cache_key)
        q == smart_query_on(S1, _query_count, "news", <<>>, <<>>, data, torn)
        df == q.df
        exact == SelectSeq(df, LAMBDA r : r.headline = headline)
        keywords == SelectSeq(Keywords(headline),
                              LAMBDA kw : \E i \in 1..Len(df) : kw \in WordsOf(df[i].headline))
        byKeyword == SelectSeq(df, LAMBDA r : keywords[1] \in WordsOf(r.headline))
        exactResult == HeadlineResult("success", headline, exact[1].label, "high",
                                      "exact_match", q.qc)
        keywordResult == HeadlineResult("success", headline, MostCommonLabel(byKeyword),
                                        "medium", "keyword_match", q.qc)
        cached == Len(S1.ret) = 1
        outcome ==
            IF cached
            THEN [S |-> S1, qc |-> _query_count, result |-> S1.ret[1].result]
            ELSE IF Len(df) = 0
            THEN [S |-> q.S, qc |-> q.qc,
                  result |-> HeadlineResult("no_data", headline, "unknown", "none",
                                            "none", q.qc)]
            ELSE IF Len(exact) > 0
            THEN [S |-> add_insight_on(
                          cache_query_on(q.S, cache_key, exactResult, 60, torn),
                          "Headline '" \o headline \o "' analyzed with sentiment: "
                              \o exact[1].label,
                          "headline_analysis", torn),
                  qc |-> q.qc, result |-> exactResult]
            ELSE IF Len(keywords) > 0
            THEN [S |-> cache_query_on(q.S, cache_key, keywordResult, 30, torn),
                  qc |-> q.qc, result |-> keywordResult]
            ELSE [S |-> q.S, qc |-> q.qc,
                  result |-> HeadlineResult("no_match", headline, "unknown", "none",
                                            "none", q.qc)]
    IN /\ Commit(outcome.S, "analyze_news_headline", headline)
       /\ _query_count' = outcome.qc
       /\ tool_ret' = outcome.result
       /\ tool_last' = [op |-> "analyze_news_headline", arg |-> headline,
                        filters |-> <<>>, max_rows |-> <<>>, cache_key |-> cache_key,
                        from_cache |-> cached]
       /\ tool_prev' = tool_last
       /\ UNCHANGED <<bondVars, simVars, alertVars, cleanVars>>
       /\ UNCHANGED <<concVars, loaderVars>>

\* ------------------------------------------------------ analyze_bond_volatility
\* Yields are integers (in some unit of yield).  A yield series is given by its
\* runs of constant yield: <<Run(4, 30), Run(6, 50)>> is 30 rows at 4 followed
\* by 50 rows at 6.  A run that is neither first nor last has at least
\* VolWindow rows, so that a rolling window holds at most one change of yield.
\* The rolling volatility of such a series, std(window) * sqrt(252), is
\* |jump| * sqrt(252 / 30) for a window holding a jump and 0 for a window
\* holding none; volatilities are kept in units of sqrt(252 / 30), so they are
\* integers, and comparisons of mean and standard deviation are made on
\* squares, exactly.

DefaultCacheTTL == 60     \* cache_ttl_minutes: int = 60
VolWindow == 30           \* rolling(window=30); "if len(df_market) < 30"
TradingDaysPerYear == 252 \* time_horizon_years * 252
MeetingsPerYear == 8      \* time_horizon_years * 8

Run(level, count) == [level |-> level, count |-> count]

YieldLevels == {4, 6, 9}

\* Constant series, series with one change of yield, and with two.
YieldSeries ==
    {<<Run(4, n)>> : n \in {20, 29, 30, 45, 59, 60, 61, 90}}
    \cup {<<Run(a, c1), Run(b, c2)>> :
             a \in YieldLevels, b \in YieldLevels, c1 \in {10, 30, 70}, c2 \in {20, 50, 70}}
    \cup {<<Run(a, 30), Run(b, c2), Run(c, c3)>> :
             a \in YieldLevels, b \in YieldLevels, c \in YieldLevels,
             c2 \in {30, 40}, c3 \in {20, 30}}

Instruments == {"10Y", "10y", "2Y"}
Horizons == {1, 2}
FedCounts == {0, 4, 20}

\* The calls: the arguments, whether each load succeeds, the number of Fed
\* announcements in the period, and the market rows of the period.
BondCalls ==
    [op : {"call"}, instrument : Instruments, time_horizon_years : Horizons,
     fed_ok : BOOLEAN, n_fed : FedCounts, market_ok : BOOLEAN,
     has_column : BOOLEAN, series : YieldSeries]

\* instrument.upper()
Upper(instrument) == IF instrument = "10y" THEN "10Y" ELSE instrument

\* treasury_column_map.get(...)
treasury_column_map(instrument) ==
    CASE instrument = "5Y" -> "Treasury Yield 5 Years __FVX_"
      [] instrument = "10Y" -> "Treasury Yield 10 Years __TNX_"
      [] instrument = "30Y" -> "Treasury Yield 30 Years __TYX_"
      [] instrument = "13W" -> "Treasury Bill 13 Week __IRX_"
      [] OTHER -> None

RECURSIVE TotalRows(_)
\* len(df_market): the rows of a series.
TotalRows(series) ==
    IF Len(series) = 0 THEN 0 ELSE series[1].count + TotalRows(Tail(series))

\* The index (from 0) of the first row of run j.
StartOf(series, j) == TotalRows(SubSeq(series, 1, j - 1))

Abs(x) == IF x < 0 THEN 0 - x ELSE x

\* Treasury_Volatility at row i (from 0): the window holds the changes of rows
\* i - 29 .. i.
TreasuryVolatilityAt(series, i) ==
    LET js == {j \in 2..Len(series) :
                  /\ i - (VolWindow - 1) <= StartOf(series, j)
                  /\ StartOf(series, j) <= i}
    IN IF js = {} THEN 0
       ELSE LET j == CHOOSE x \in js : TRUE
            IN Abs(series[j].level - series[j - 1].level)

\* df_market['Treasury_Volatility'] after dropna: the first change is NaN, so
\* the first full window ends at row VolWindow.
Treasury_Volatility(series) ==
    LET N == TotalRows(series)
    IN [k \in 1..(IF N > VolWindow THEN N - VolWindow ELSE 0) |->
            TreasuryVolatilityAt(series, VolWindow - 1 + k)]

RECURSIVE SumSeq(_)
SumSeq(xs) == IF Len(xs) = 0 THEN 0 ELSE xs[1] + SumSeq(Tail(xs))

RECURSIVE SumSquares(_)
SumSquares(xs) == IF Len(xs) = 0 THEN 0 ELSE xs[1] * xs[1] + SumSquares(Tail(xs))

\* For n values of sum S and n * sum of squares - S^2 = V:
\*   mean = S / n,  std^2 = V / (n * (n - 1)).
\* current > mean + std
AboveHigh(current, n, S, V) ==
    /\ n * current - S > 0
    /\ (n - 1) * (n * current - S) * (n * current - S) > n * V

\* current < mean - 0.5 * std
BelowLow(current, n, S, V) ==
    /\ S - n * current > 0
    /\ 4 * (n - 1) * (S - n * current) * (S - n * current) > n * V

\* Mutant of TradingSignal: volatility is bought whenever it is below the mean.
TradingSignal_LowAtMean(current, n, S, V) ==
    IF AboveHigh(current, n, S, V)
    THEN [signal |-> "SELL_VOLATILITY", strength |-> "STRONG"]
    ELSE IF S - n * current > 0
    THEN [signal |-> "BUY_VOLATILITY", strength |-> "MODERATE"]
    ELSE [signal |-> "HOLD", strength |-> "NEUTRAL"]

\* The trading logic: signal and signal_strength.
TradingSignal(current, n, S, V) ==
    IF AboveHigh(current, n, S, V)
    THEN [signal |-> "SELL_VOLATILITY", strength |-> "STRONG"]
    ELSE IF BelowLow(current, n, S, V)
    THEN [signal |-> "BUY_VOLATILITY", strength |-> "MODERATE"]
    ELSE [signal |-> "HOLD", strength |-> "NEUTRAL"]

\* Mutant of VolatilityConsistency: the division is made whatever the mean.
VolatilityConsistency_NoGuard(n, S, V) ==
    [cv2 |-> [num |-> n * V, den |-> (n - 1) * S * S]]

\* volatility_consistency = 1 - std / mean if mean > 0 else 0.5, kept as cv2,
\* the square of what is subtracted from 1: (std / mean)^2, or 1/4 for 0.5.
VolatilityConsistency(n, S, V) ==
    IF S > 0 THEN [cv2 |-> [num |-> n * V, den |-> (n - 1) * S * S]]
    ELSE [cv2 |-> [num |-> 1, den |-> 4]]

Min(a, b) == IF a < b THEN a ELSE b

\* The dictionaries returned without an analysis.  kind stands for the message;
\* the handler of "except Exception" adds a traceback.
BondError(kind) == [status |-> "error", kind |-> kind, traceback |-> (kind = "exception")]

\* The analysis of the market rows, once the data is known to be usable.
BondAnalysis(series, time_horizon_years, n_fed) ==
    LET vol == Treasury_Volatility(series)
        n == Len(vol)
        S == SumSeq(vol)
        V == n * SumSquares(vol) - S * S
        current == vol[n]
    IN [status |-> "success",
        volatility_metrics |->
            [current_volatility |-> current,
             data_points |-> n,
             volatility_sum |-> S,
             volatility_spread |-> V],
        trading_signal |-> TradingSignal(current, n, S, V),
        confidence_breakdown |->
            [data_completeness |->
                 [num |-> Min(n, time_horizon_years * TradingDaysPerYear),
                  den |-> time_horizon_years * TradingDaysPerYear],
             event_coverage |->
                 [num |-> Min(n_fed, time_horizon_years * MeetingsPerYear),
                  den |-> time_horizon_years * MeetingsPerYear],
             volatility_consistency |-> VolatilityConsistency(n, S, V)]]

\* load_table_from_bigquery on the loader state L = [mc, md], as the action
\* above; source tells where the rows came from.
load_table_on(L, table_name, where_clause, use_cache, cache_ttl_minutes, ok) ==
    LET cache_key == _get_cache_key(table_name, where_clause)
        hit == /\ use_cache
               /\ cache_key \in DOMAIN L.mc
               /\ cache_key \in DOMAIN L.md
               /\ now - L.md[cache_key] < cache_ttl_minutes
    IN IF hit THEN [L EXCEPT !.source = "cache", !.n = @ + 1, !.table = table_name]
       ELSE IF ok
       THEN [mc |-> IF use_cache
                    THEN Put(L.mc, cache_key, ProviderRows(table_name, where_clause))
                    ELSE L.mc,
             md |-> IF use_cache THEN Put(L.md, cache_key, now) ELSE L.md,
             source |-> "provider", n |-> L.n + 1, table |-> table_name]
       ELSE [L EXCEPT !.source = "raised", !.n = @ + 1, !.table = table_name]

\* analyze_bond_volatility(instrument, time_horizon_years), on the data of
\* bond_call.
analyze_bond_volatility ==
    /\ bond_call.op = "call"
    /\ bond_ret.status = "none"
    /\ LET c == bond_call
           treasury_column == treasury_column_map(Upper(c.instrument))
           L0 == [mc |-> _memory_cache, md |-> _cache_metadata, source |-> "none",
                  n |-> 0, table |-> None]
           L1 == load_table_on(L0, "communications", None, TRUE, DefaultCacheTTL, c.fed_ok)
           L2 == load_table_on(L1, "30_yr_stock_market_data", None, TRUE,
                               DefaultCacheTTL, c.market_ok)
           out ==
               IF treasury_column = None
               THEN [L |-> L0, result |-> BondError("unknown_instrument")]
               ELSE IF L1.source = "raised"
               THEN [L |-> L1, result |-> BondError("exception")]
               ELSE IF L2.source = "raised"
               THEN [L |-> L2, result |-> BondError("exception")]
               ELSE IF TotalRows(c.series) < VolWindow
               THEN [L |-> L2, result |-> BondError("insufficient_data")]
               ELSE IF ~c.has_column
               THEN [L |-> L2, result |-> BondError("missing_column")]
               ELSE IF Len(Treasury_Volatility(c.series)) < VolWindow
               THEN [L |-> L2, result |-> BondError("insufficient_valid_data")]
               ELSE [L |-> L2,
                     result |-> BondAnalysis(c.series, c.time_horizon_years, c.n_fed)]
       IN /\ bond_ret' = out.result
          /\ _memory_cache' = out.L.mc
          /\ _cache_metadata' = out.L.md
          /\ loader_calls' = loader_calls + out.L.n
          /\ IF out.L.n = 0
             THEN UNCHANGED <<loader_ret, loader_last>>
             ELSE /\ loader_ret' = [source |-> out.L.source,
                                    rows |-> IF out.L.source = "raised" THEN NoRows
                                             ELSE out.L.mc[_get_cache_key(out.L.table, None)]]
                  /\ loader_last' = [op |-> "load", table |-> out.L.table, where |-> None,
                                     use_cache |-> TRUE, ttl |-> DefaultCacheTTL, at |-> now]
    /\ UNCHANGED <<bond_call, sentimentVars, simVars, alertVars, cleanVars>>
    /\ UNCHANGED <<storeVars, concVars>>

\* ----------------------------------------------------------- simulate_bond_risk

SIM_COUNT == 10000

\* Mutant of STRESS_REGIMES: one multiplier for every regime.
STRESS_REGIMES_Flat == [calm |-> 10, normal |-> 10, stress |-> 10]

\* STRESS_REGIMES: the multipliers 0.7, 1.0 and 1.8, in tenths.
STRESS_REGIMES == [calm |-> 7, normal |-> 10, stress |-> 18]

\* TENOR_MAP: its keys.
TENOR_MAP == {"5Y", "10Y", "30Y"}

Tenors == TENOR_MAP \cup {"2Y", "5y"}
Regimes == DOMAIN STRESS_REGIMES \cup {"panic"}

\* ForecastedYields.keys(): sequences of distinct tenors, in insertion order.
Batches ==
    {b \in UNION {[1..n -> Tenors] : n \in 0..MaxBatch} :
        \A i \in DOMAIN b, j \in DOMAIN b : b[i] = b[j] => i = j}

\* A float64: a number or NaN.
NaN == [nan |-> TRUE, v |-> 0]
Float(x) == [nan |-> FALSE, v |-> x]

\* a < b on float64: false as soon as one side is NaN.
FloatLt(a, b) == ~a.nan /\ ~b.nan /\ a.v < b.v

\* The numeric yields of a tenor's column in the CSV file, by ascending date:
\* no row, a constant column, a column that rises by a constant step, and a
\* column whose daily differences have standard deviation 2.
Histories == {<<>>, <<4, 4, 4, 4>>, <<1, 2, 3, 4>>, <<0, 0, 2, 6>>}

\* series.diff().dropna()
Diff(series) == [i \in 1..(Len(series) - 1) |-> series[i + 1] - series[i]]

\* yield_changes.std(): the sample standard deviation, NaN for fewer than
\* two values.  The columns of Histories have a whole standard deviation.
Std(xs) ==
    IF Len(xs) < 2 THEN NaN
    ELSE LET n == Len(xs)
             V == n * SumSquares(xs) - SumSeq(xs) * SumSeq(xs)
         IN Float(CHOOSE r \in 0..V : r * r * n * (n - 1) = V)

\* sigma = yield_changes.std() * STRESS_REGIMES[regime], in tenths.
Sigma(series, regime) ==
    LET std == Std(Diff(series))
    IN IF std.nan THEN NaN ELSE Float(std.v * STRESS_REGIMES[regime])

\* What compute_metrics reads of SIM_COUNT standard normal draws: the
\* smallest, the 5th percentile and the largest.  The generator is the
\* process-wide numpy generator, which the code never seeds, so every
\* call meets draws of its own.
StandardDraws ==
    {z \in [min : -1..1, p5 : -1..1, max : -1..1] :
        z.min <= z.p5 /\ z.p5 <= z.max /\ z.min < z.max}

\* np.random.normal(0, sigma, SIM_COUNT), as the same three samples.
Normal(sigma, z) ==
    IF sigma.nan THEN [min |-> NaN, p5 |-> NaN, max |-> NaN]
    ELSE [min |-> Float(sigma.v * z.min), p5 |-> Float(sigma.v * z.p5),
          max |-> Float(sigma.v * z.max)]

\* simulate_yield_changes(tenor, regime) on the column and the draws.
simulate_yield_changes(series, regime, z) == Normal(Sigma(series, regime), z)

\* round(x * 10000, 2)
ToBps(x) == IF x.nan THEN NaN ELSE Float(x.v * 10000)

\* Mutant of compute_metrics: the range is [max, min].
compute_metrics_Swapped(simulated_changes) ==
    [VaR_95_YieldBps |-> ToBps(simulated_changes.p5),
     YieldRange_Bps |-> <<ToBps(simulated_changes.max), ToBps(simulated_changes.min)>>,
     SimCount |-> SIM_COUNT]

\* compute_metrics, on the three samples it reads.
compute_metrics(simulated_changes) ==
    [VaR_95_YieldBps |-> ToBps(simulated_changes.p5),
     YieldRange_Bps |-> <<ToBps(simulated_changes.min), ToBps(simulated_changes.max)>>,
     SimCount |-> SIM_COUNT]

\* The seeds a caller may try to pass: none, or one.
Seeds == {<<>>, <<7>>}

\* The calls: the tenors of ForecastedYields, the regime, the column of the
\* CSV file, and the tenors whose simulation raises (the file or the column
\* is missing).
SimCalls ==
    [op : {"call"}, ForecastedYields : Batches, RegimeHint : Regimes,
     raising : SUBSET TENOR_MAP, history : Histories, seed : {<<>>}]

\* The tenors of a call that reach np.random.normal.
Drawn(call) ==
    IF call.RegimeHint \notin DOMAIN STRESS_REGIMES THEN {}
    ELSE {call.ForecastedYields[i] : i \in DOMAIN call.ForecastedYields}
            \cap (TENOR_MAP \ call.raising)

RECURSIVE SimulateTenors_Abort(_, _, _, _, _, _)
\* Mutant of SimulateTenors: an invalid tenor ends the loop.
SimulateTenors_Abort(tenors, regime, raising, series, rng, results) ==
    IF Len(tenors) = 0 THEN results
    ELSE LET tenor == tenors[1]
         IN IF tenor \notin TENOR_MAP
            THEN Put(results, tenor, [error |-> "Invalid tenor"])
            ELSE SimulateTenors_Abort(Tail(tenors), regime, raising, series, rng,
                    Put(results, tenor,
                        IF tenor \in raising THEN [error |-> "exception"]
                        ELSE compute_metrics(
                                simulate_yield_changes(series, regime, rng[tenor]))))

RECURSIVE SimulateTenors(_, _, _, _, _, _)
\* The loop "for tenor in ForecastedYields.keys()", from the tenors left and
\* the results so far.
SimulateTenors(tenors, regime, raising, series, rng, results) ==
    IF Len(tenors) = 0 THEN results
    ELSE LET tenor == tenors[1]
             entry == IF tenor \notin TENOR_MAP THEN [error |-> "Invalid tenor"]
                      ELSE IF tenor \in raising THEN [error |-> "exception"]
                      ELSE compute_metrics(
                              simulate_yield_changes(series, regime, rng[tenor]))
         IN SimulateTenors(Tail(tenors), regime, raising, series, rng,
                           Put(results, tenor, entry))

\* simulate_bond_risk(ForecastedYields, RegimeHint), on the call of sim_call.
\* The function has no seed parameter: a call that passes one raises
\* TypeError before the body runs.
simulate_bond_risk ==
    /\ sim_call.op = "call"
    /\ sim_prev' = sim_ret
    /\ \E rng \in [Drawn(sim_call) -> StandardDraws] :
         sim_ret' =
          IF sim_call.seed # <<>>
          THEN [status |-> "TypeError"]
          ELSE IF sim_call.RegimeHint \notin DOMAIN STRESS_REGIMES
          THEN [status |-> "error", message |-> "Invalid RegimeHint"]
          ELSE [status |-> "ok",
                simulation_results |->
                    SimulateTenors(sim_call.ForecastedYields, sim_call.RegimeHint,
                                   sim_call.raising, sim_call.history, rng, EmptyDict),
                interpretation |->
                    [market_regime |-> sim_call.RegimeHint,
                     risk_level |-> IF sim_call.RegimeHint = "stress" THEN "high"
                                    ELSE IF sim_call.RegimeHint = "normal" THEN "moderate"
                                    ELSE "low"]]
    /\ UNCHANGED <<sim_call, sentimentVars, bondVars, alertVars, cleanVars>>
    /\ UNCHANGED <<storeVars, concVars, loaderVars>>

\* ---------------------------------------------------------- publish_alert_event

\* config.ALERTS_PUBSUB_TOPIC and config.ALERTS_WEBHOOK_URL.  class Config
\* defines neither, so the attribute is missing until something assigns
\* it; once assigned it is empty or holds a value.
Settings == {"missing", "empty", "set"}

Alerts ==
    {[id |-> "1", ticker |-> "AAPL", alert_type |-> "high_volatility"],
     [id |-> "2", ticker |-> "MSFT", alert_type |-> "high_volatility"]}

\* The calls: the alert, the two settings, and whether each sink raises.
AlertCalls ==
    [op : {"call"}, alert : Alerts,
     ALERTS_PUBSUB_TOPIC : Settings, ALERTS_WEBHOOK_URL : Settings,
     pubsub_raises : BOOLEAN, webhook_raises : BOOLEAN]

\* What publish_alert_pubsub and publish_alert_webhook return.
pub_res == [status |-> "published"]
web_res == [status |-> "webhook_posted"]

\* "if config.ALERTS_PUBSUB_TOPIC: try ... except": the sinks attempted and
\* the results appended so far.
TryPubsub(call) ==
    IF call.ALERTS_PUBSUB_TOPIC = "missing"
    THEN [status |-> "AttributeError", attempts |-> <<>>, events |-> <<>>]
    ELSE IF call.ALERTS_PUBSUB_TOPIC = "empty"
    THEN [status |-> "running", attempts |-> <<>>, events |-> <<>>]
    ELSE [status |-> "running", attempts |-> <<"pubsub">>,
          events |-> IF call.pubsub_raises THEN <<>> ELSE <<pub_res>>]

\* "if config.ALERTS_WEBHOOK_URL: try ... except"
TryWebhook(call, sofar) ==
    IF call.ALERTS_WEBHOOK_URL = "missing"
    THEN [sofar EXCEPT !.status = "AttributeError"]
    ELSE IF call.ALERTS_WEBHOOK_URL = "empty"
    THEN sofar
    ELSE [sofar EXCEPT
            !.attempts = Append(@, "webhook"),
            !.events = IF call.webhook_raises THEN @ ELSE Append(@, web_res)]

\* publish_alert_event(alert), on the call of alert_call: the event returned
\* or the exception raised, with the sinks that were attempted.
publish_alert_event ==
    /\ alert_call.op = "call"
    /\ alert_ret.status = "none"
    /\ LET first == TryPubsub(alert_call)
           both == IF first.status = "AttributeError" THEN first
                   ELSE TryWebhook(alert_call, first)
       IN alert_ret' =
            IF both.status = "AttributeError"
            THEN [status |-> "AttributeError", attempts |-> both.attempts]
            ELSE [status |-> "returned", attempts |-> both.attempts,
                  event |-> [type |-> "alert_raised", payload |-> alert_call.alert,
                             outcomes |-> both.events]]
    /\ UNCHANGED <<alert_call, sentimentVars, bondVars, simVars, cleanVars>>
    /\ UNCHANGED <<storeVars, concVars, loaderVars>>

\* -------------------------------------------------------- clean_price_dataframe

\* The values of the date column: two dates, None, and a string that is no
\* date.
DateValues == {"2025-01-01", "2025-01-02", None, "n/a"}

\* The values of the close column: a price, or None.
CloseValues == {<<>>, <<100>>}

\* The frames: up to MaxPriceRows rows of date, ticker and close.
PriceFrames ==
    UNION {[1..n -> [date : DateValues, ticker : {"tst"}, close : CloseValues]] :
              n \in 0..MaxPriceRows}

\* pd.to_datetime(..., errors='coerce'): day numbers, NaT for what is no date.
to_datetime(d) ==
    CASE d = "2025-01-01" -> <<1>>
      [] d = "2025-01-02" -> <<2>>
      [] OTHER -> <<>>

\* .astype(str).str.upper()
str_upper(t) == IF t = "tst" THEN "TST" ELSE t

\* pd.to_numeric(..., errors='coerce') on a column of numbers and None.
to_numeric(c) == c

RECURSIVE FilterRows(_, _)
\* The rows of a frame that a boolean mask keeps, in the frame's order.
FilterRows(rows, keep) ==
    IF Len(rows) = 0 THEN <<>>
    ELSE IF keep[1] THEN <<rows[1]>> \o FilterRows(Tail(rows), Tail(keep))
    ELSE FilterRows(Tail(rows), Tail(keep))

\* df.dropna(subset=['date', 'close'])
dropna(rows) ==
    FilterRows(rows, [i \in DOMAIN rows |-> rows[i].date # <<>> /\ rows[i].close # <<>>])

\* The orders of the rows 1..n.
Orders(n) == {p \in [1..n -> 1..n] : \A i, j \in 1..n : p[i] = p[j] => i = j}

\* df.sort_values('date'): the default kind is quicksort, which is not
\* stable, so rows of the same date come out in an order the sort picks.
sort_values(rows) ==
    {[i \in DOMAIN rows |-> rows[p[i]]] : p \in
        {q \in Orders(Len(rows)) :
            \A i, j \in DOMAIN rows : i < j => rows[q[i]].date[1] <= rows[q[j]].date[1]}}

\* df[~df.duplicated(subset=['date'], keep='last')]
drop_duplicates_last(rows) ==
    FilterRows(rows, [i \in DOMAIN rows |->
                        ~\E j \in DOMAIN rows : j > i /\ rows[j].date = rows[i].date])

\* clean_price_dataframe(df), on the frame of clean_call.  A row keeps the
\* index label it had in the input until reset_index, which is how the rows
\* of the result are told apart here.
clean_price_dataframe ==
    /\ clean_call.op = "call"
    /\ clean_ret.status = "none"
    /\ LET df == clean_call.df
           parsed == [i \in DOMAIN df |->
                        [index |-> i,
                         date |-> to_datetime(df[i].date),
                         ticker |-> str_upper(df[i].ticker),
                         close |-> to_numeric(df[i].close)]]
       IN \E sorted \in sort_values(dropna(parsed)) :
            clean_ret' = [status |-> "returned", df |-> drop_duplicates_last(sorted)]
    /\ UNCHANGED <<clean_call, sentimentVars, bondVars, simVars, alertVars>>
    /\ UNCHANGED <<storeVars, concVars, loaderVars>>

\* No tool has been called.
NoToolCall == [op |-> "init", arg |-> None, filters |-> <<>>, max_rows |-> <<>>,
               cache_key |-> None, from_cache |-> FALSE]
NoBondCall == [op |-> "init"]
NoSimCall == [op |-> "init"]

SentimentInit ==
    /\ _query_count = 0
    /\ tool_last = NoToolCall
    /\ tool_prev = NoToolCall
    /\ tool_ret = [status |-> "none"]

BondIdle ==
    /\ bond_call = NoBondCall
    /\ bond_ret = [status |-> "none"]

SimIdle ==
    /\ sim_call = NoSimCall
    /\ sim_ret = [status |-> "none"]
    /\ sim_prev = [status |-> "none"]

AlertIdle ==
    /\ alert_call = [op |-> "init"]
    /\ alert_ret = [status |-> "none"]

CleanIdle ==
    /\ clean_call = [op |-> "init"]
    /\ clean_ret = [status |-> "none"]

ToolInit == SentimentInit /\ BondIdle /\ SimIdle /\ AlertIdle /\ CleanIdle

Init == StoreInit /\ ConcInit /\ LoaderInit /\ ToolInit

\* A loader, in a process whose store has no durable tier.
LoaderSpecInit == Init /\ ~fs_present

\* The store under the clock: every TTL, one key and value.
Next ==
    \/ \E ttl \in TTLs : calls < MaxCalls /\ cache_query("k1", "v1", ttl)
    \/ \E a \in Analyses : calls < MaxCalls /\ add_analysis("AAPL", a)
    \/ \E i \in Insights : calls < MaxCalls /\ add_insight(i)
    \/ calls < MaxCalls /\ get_cached_query("k1")
    \/ \E force \in BOOLEAN : calls < MaxCalls /\ SaveMemoryCall(force)
    \/ Tick
    \/ GcsToggle

Spec == Init /\ [][Next]_vars

\* The store's two tiers: every key and value, one TTL, the clock stopped.
CacheNext ==
    \/ \E k \in Keys, v \in Values : calls < MaxCacheCalls /\ cache_query(k, v, 1)
    \/ \E a \in Analyses : calls < MaxCacheCalls /\ add_analysis("AAPL", a)
    \/ \E i \in Insights : calls < MaxCacheCalls /\ add_insight(i)
    \/ \E k \in Keys : calls < MaxCacheCalls /\ get_cached_query(k)
    \/ \E force \in BOOLEAN : calls < MaxCacheCalls /\ SaveMemoryCall(force)
    \/ GcsToggle

CacheSpec == Init /\ [][CacheNext]_vars

\* The store's persistence: longer runs of calls, one key, value and TTL,
\* the clock stopped.
FlushNext ==
    \/ calls < MaxFlushCalls /\ cache_query("k1", "v1", 1)
    \/ \E t \in Tickers, a \in Analyses : calls < MaxFlushCalls /\ add_analysis(t, a)
    \/ \E i \in Insights : calls < MaxFlushCalls /\ add_insight(i)
    \/ calls < MaxFlushCalls /\ get_cached_query("k1")
    \/ \E force \in BOOLEAN : calls < MaxFlushCalls /\ SaveMemoryCall(force)
    \/ GcsToggle

FlushSpec == Init /\ [][FlushNext]_vars

\* The store called by two threads, a statement at a time.
ConcNext ==
    \E t \in Threads :
        \/ \E k \in Keys : Begin(t, "cache_query", k)
        \/ Begin(t, "add_analysis", "AAPL")
        \/ Begin(t, "add_insight", "i1")
        \/ CqMemory(t) \/ CqFast(t)
        \/ AaCheck(t) \/ AaCreate(t) \/ AaAppend(t) \/ AaStat(t)
        \/ AiAppend(t)
        \/ SetDirty(t) \/ LoadOps(t) \/ StoreOps(t) \/ CheckOps(t)
        \/ SvCheck(t) \/ SvOpen(t) \/ SvDump(t) \/ SvClose(t)
        \/ SvClear(t) \/ SvReset(t)

ConcSpec == Init /\ [][ConcNext]_vars

\* The data loader under the clock.
LoaderNext ==
    \/ \E tb \in Tables, w \in Wheres, uc \in BOOLEAN, ttl \in LoaderTTLs, ok \in BOOLEAN :
          loader_calls < MaxLoaderCalls /\ load_table_from_bigquery(tb, w, uc, ttl, ok)
    \/ \E tb \in Tables \cup {None} :
          loader_calls < MaxLoaderCalls /\ clear_cache(tb)
    \/ Tick

LoaderSpec == LoaderSpecInit /\ [][LoaderNext]_vars

\* Whether a write that raises leaves a cut-short document; a choice only
\* when a write can raise.
TornChoices == IF fs_present /\ ~gcs_up THEN BOOLEAN ELSE {FALSE}

\* smart_query on the module-level store: every intent, filter dictionary and
\* row limit.
SentimentNext ==
    \/ \E i \in Intents, f \in FilterDicts, m \in MaxRows, data \in NewsData,
          torn \in TornChoices :
          _query_count < MaxQueries /\ smart_query(i, f, m, data, torn)
    \/ GcsToggle

SentimentSpec == Init /\ [][SentimentNext]_vars

\* analyze_news_headline on the module-level store and data store.
HeadlineNext ==
    \/ \E h \in Headlines, data \in NewsData, torn \in TornChoices :
          calls < MaxHeadlineCalls /\ analyze_news_headline(h, data, torn)
    \/ GcsToggle

HeadlineSpec == Init /\ [][HeadlineNext]_vars

\* analyze_bond_volatility applied to one call, in a process whose store has
\* no durable tier and whose loader has cached nothing.
BondSpecInit ==
    /\ StoreInit /\ ~fs_present
    /\ ConcInit /\ LoaderInit /\ SentimentInit /\ SimIdle /\ AlertIdle /\ CleanIdle
    /\ bond_call \in BondCalls
    /\ bond_ret = [status |-> "none"]

BondNext == analyze_bond_volatility

BondSpec == BondSpecInit /\ [][BondNext]_vars

\* simulate_bond_risk applied to one call.
SimSpecInit ==
    /\ StoreInit /\ ~fs_present
    /\ ConcInit /\ LoaderInit /\ SentimentInit /\ BondIdle /\ AlertIdle /\ CleanIdle
    /\ sim_call \in SimCalls
    /\ sim_ret = [status |-> "none"]
    /\ sim_prev = [status |-> "none"]

SimNext == sim_ret.status = "none" /\ simulate_bond_risk

SimSpec == SimSpecInit /\ [][SimNext]_vars

\* The calls made twice: one tenor at most, with or without a seed.
RepeatCalls ==
    [op : {"call"}, ForecastedYields : {b \in Batches : Len(b) <= 1},
     RegimeHint : Regimes, raising : {{}}, history : Histories, seed : Seeds]

\* simulate_bond_risk applied twice to one call.
SimRepeatInit ==
    /\ StoreInit /\ ~fs_present
    /\ ConcInit /\ LoaderInit /\ SentimentInit /\ BondIdle /\ AlertIdle /\ CleanIdle
    /\ sim_call \in RepeatCalls
    /\ sim_ret = [status |-> "none"]
    /\ sim_prev = [status |-> "none"]

SimRepeatNext == sim_prev.status = "none" /\ simulate_bond_risk

SimRepeatSpec == SimRepeatInit /\ [][SimRepeatNext]_vars

\* publish_alert_event applied to one call.
AlertSpecInit ==
    /\ StoreInit /\ ~fs_present
    /\ ConcInit /\ LoaderInit /\ SentimentInit /\ BondIdle /\ SimIdle /\ CleanIdle
    /\ alert_call \in AlertCalls
    /\ alert_ret = [status |-> "none"]

AlertNext == publish_alert_event

AlertSpec == AlertSpecInit /\ [][AlertNext]_vars

\* clean_price_dataframe applied to one frame.
CleanSpecInit ==
    /\ StoreInit /\ ~fs_present
    /\ ConcInit /\ LoaderInit /\ SentimentInit /\ BondIdle /\ SimIdle /\ AlertIdle
    /\ clean_call \in [op : {"call"}, df : PriceFrames]
    /\ clean_ret = [status |-> "none"]

CleanNext == clean_price_dataframe

CleanSpec == CleanSpecInit /\ [][CleanNext]_vars

\* A mutating call of the store: one key, ticker and insight.
MutatingCall ==
    \/ cache_query("k1", "v1", 1)
    \/ add_analysis("AAPL", "a1")
    \/ add_insight("i1")

\* A mutating call made while the durable tier accepts writes.
MutateWhileUp == calls < MaxRetryCalls /\ gcs_up /\ MutatingCall

\* The durable tier accepts writes again.
Recover == ~gcs_up /\ GcsToggle

\* The store with a durable tier, called while the tier fails and recovers.
\* The last call of a run is kept for a mutating call made while the tier
\* accepts writes.
RetryInit == Init /\ fs_present

RetryNext ==
    \/ calls < MaxRetryCalls - 1 /\ MutatingCall
    \/ calls < MaxRetryCalls - 1 /\ get_cached_query("k1")
    \/ \E force \in BOOLEAN : calls < MaxRetryCalls - 1 /\ SaveMemoryCall(force)
    \/ MutateWhileUp
    \/ GcsToggle

\* Fairness: the tier recovers at some time, and a mutating call is made at
\* some time at which the tier accepts writes.
RetrySpec ==
    /\ RetryInit /\ [][RetryNext]_vars
    /\ WF_vars(Recover)
    /\ SF_vars(MutateWhileUp)

\* smart_query called again on files short and long, with and without a
\* ticker filter and a row limit.
RepeatNext ==
    \/ \E f \in {<<>>, << <<"ticker", "AAPL">> >>}, m \in MaxRows,
          data \in (NewsData \ {<<>>}) \cup {LongFile} :
          _query_count < MaxQueries /\ smart_query("news", f, m, data, FALSE)
    \/ GcsToggle

RepeatSpec == Init /\ [][RepeatNext]_vars

\* The where clauses of KeySpec: none, a comparison, and the name of a
\* boolean column called full.
KeyWheres == Wheres \cup {"full"}

\* The data loader called with every where clause, the cache in use.
KeyNext ==
    \/ \E tb \in {"stock_news", "a6"}, w \in KeyWheres, ok \in BOOLEAN :
          loader_calls < MaxLoaderCalls /\ load_table_from_bigquery(tb, w, TRUE, 2, ok)
    \/ Tick

KeySpec == LoaderSpecInit /\ [][KeyNext]_vars

\* ------------------------------------------------------------------ claims

MutatingOps == {"cache_query", "add_analysis", "add_insight"}

\* C1 (as claimed): a get_cached_query(k) is a hit exactly when an entry for k
\* is stored in one of the tiers and its age at the call, in minutes, is below
\* its ttl_minutes; an entry whose age has reached its TTL is a miss.
C1_TTLExpiry ==
    last_call.op = "get_cached_query" =>
        LET e == CachedQueryResult(last_call.arg)
        IN (Len(ret) = 1) <=>
              (Len(e) = 1 /\ last_call.at - e[1].cached_at < e[1].ttl_minutes)

\* C2: a get_cached_query(k) that directly follows cache_query(k, v, ttl) is a
\* hit and returns the entry of that call: result v, its time and its TTL,
\* whatever was stored for k before.
C2_RoundTrip ==
    (last_call.op = "get_cached_query" /\ prev_call.op = "cache_query"
        /\ prev_call.arg = last_call.arg) =>
        ret = <<[result |-> prev_call.val, cached_at |-> prev_call.at,
                 ttl_minutes |-> prev_call.ttl]>>

\* C2 witness: a first get_cached_query(k1) hit the loaded entry (v1), then
\* cache_query(k1, v2) and get_cached_query(k1), which returned v2.
C2_Witness ==
    /\ last_call.op = "get_cached_query"
    /\ prev_call.op = "cache_query"
    /\ prev_call.arg = "k1" /\ last_call.arg = "k1"
    /\ prev_call.val = "v2"
    /\ Len(ret) = 1 /\ ret[1].result = "v2"
    /\ calls = 3 /\ mutations = 1 /\ memory.cache_hits = 2

\* A run from construction in which every save attempt persisted and
\* save_memory was only called by the mutating handlers.
CleanRun == fs_present /\ failed_saves = 0 /\ explicit_saves = 0

C5_DirtyIffMutated ==
    /\ _dirty <=> (unflushed > 0)
    /\ _operations_since_save = pending_ops

\* The entry of the last mutating call can be read back from the process.
Retrievable ==
    CASE last_call.op = "cache_query" ->
            /\ last_call.arg \in DOMAIN _in_memory_cache
            /\ _in_memory_cache[last_call.arg].result = last_call.val
            /\ CachedQueryResult(last_call.arg) = <<_in_memory_cache[last_call.arg]>>
      [] last_call.op = "add_analysis" ->
            /\ last_call.arg \in DOMAIN memory.analyzed_tickers
            /\ LET h == memory.analyzed_tickers[last_call.arg]
               IN Len(h) > 0 /\ h[Len(h)].analysis = last_call.val
      [] last_call.op = "add_insight" ->
            /\ Len(memory.insights) > 0
            /\ memory.insights[Len(memory.insights)].insight = last_call.arg
      [] OTHER -> TRUE

\* C6: no handler call raises; a mutating call whose save found no durable
\* tier, or whose write raised, leaves its entry retrievable, the store dirty
\* and the counter at the number of calls since the last successful save.
C6_FailureAbsorbed ==
    /\ ~raised
    /\ (last_call.op \in MutatingOps /\ save_outcome \in {"failed", "unavailable"}) =>
          /\ Retrievable
          /\ _dirty
          /\ _operations_since_save = pending_ops
          /\ _operations_since_save >= SaveThreshold

\* C6 witness: a cache_query whose write raised, after an earlier failed save.
C6_Witness ==
    /\ last_call.op = "cache_query"
    /\ save_outcome = "failed"
    /\ _operations_since_save = 4
    /\ last_call.arg \in DOMAIN _in_memory_cache

\* No thread is inside a handler.
AllIdle == \A t \in Threads : pc[t] = "idle"

\* The calls whose mutation is not in the durable document.
Unsaved == applied \ durable_ids

CompletedOf(kind) == {c \in completed : c.kind = kind}

\* Every call that returned left its entry in the store.
EveryEntryPresent ==
    /\ \A c \in CompletedOf("cache_query") :
          c.arg \in DOMAIN memory.query_cache /\ c.arg \in DOMAIN _in_memory_cache
    /\ Len(memory.insights) = Cardinality(CompletedOf("add_insight"))
    /\ CompletedOf("add_analysis") # {} =>
          /\ "AAPL" \in DOMAIN memory.analyzed_tickers
          /\ Len(memory.analyzed_tickers["AAPL"]) = Cardinality(CompletedOf("add_analysis"))

\* C7 (as claimed): once interleaved mutating calls have returned, every
\* call's entry is present, and a mutation missing from the durable document
\* is accounted for: the store is dirty and the counter is at least the number
\* of such mutations.
C7_NoLostUpdates ==
    AllIdle =>
        /\ EveryEntryPresent
        /\ (Unsaved # {} => _dirty)
        /\ _operations_since_save >= Cardinality(Unsaved)

\* The threads between the opening and the closing of the memory file.
Writers == {t \in Threads : pc[t] \in {"sv_dump", "sv_close"}}

\* C8 (as claimed): at most one execution of save_memory is writing the
\* durable document at any time.
C8_SingleFlight == Cardinality(Writers) <= 1

\* C9: get_cached_query(k) returns the fast tier's entry when it has one and
\* leaves the fast tier alone; else it returns the durable-tier map's entry and
\* copies it into the fast tier; else it returns None and changes neither
\* tier, nor dirty, nor the counter, nor the durable document.
C9_TwoTierLookup ==
    [][\A k \in Keys :
        (calls' = calls + 1 /\ last_call'.op = "get_cached_query" /\ last_call'.arg = k) =>
            IF k \in DOMAIN _in_memory_cache
            THEN ret' = <<_in_memory_cache[k]>> /\ _in_memory_cache' = _in_memory_cache
            ELSE IF k \in DOMAIN memory.query_cache
            THEN /\ ret' = <<memory.query_cache[k]>>
                 /\ k \in DOMAIN _in_memory_cache'
                 /\ _in_memory_cache'[k] = memory.query_cache[k]
            ELSE /\ ret' = <<>>
                 /\ UNCHANGED <<memory, _in_memory_cache, _dirty,
                                _operations_since_save, durable>>
      ]_vars

\* The cache keys of a table: that of the full table and those of its filters.
KeysOfTable(table_name) == {_get_cache_key(table_name, w) : w \in Wheres}

\* C10 (as claimed): clear_cache(table_name) removes exactly the entries of
\* that table, filtered ones included, from the data map and from the
\* freshness metadata and keeps the entries of the other tables; clear_cache()
\* empties both maps.
C10_ClearByTable ==
    [][(loader_calls' = loader_calls + 1 /\ loader_last'.op = "clear_cache") =>
          IF loader_last'.table = None
          THEN _memory_cache' = EmptyDict /\ _cache_metadata' = EmptyDict
          ELSE /\ DOMAIN _memory_cache' =
                     DOMAIN _memory_cache \ KeysOfTable(loader_last'.table)
               /\ DOMAIN _cache_metadata' =
                     DOMAIN _cache_metadata \ KeysOfTable(loader_last'.table)
               /\ \A k \in DOMAIN _memory_cache' :
                     _memory_cache'[k] = _memory_cache[k]
                        /\ _cache_metadata'[k] = _cache_metadata[k]
      ]_vars

\* C9 witness: k1 came from the persisted document, a first get promoted it
\* and a second get returned the same entry from the fast tier.
C9_Witness ==
    /\ last_call.op = "get_cached_query" /\ last_call.arg = "k1"
    /\ prev_call.op = "get_cached_query" /\ prev_call.arg = "k1"
    /\ mutations = 0
    /\ memory.cache_hits = 2
    /\ "k1" \in DOMAIN _in_memory_cache
    /\ ret = <<memory.query_cache["k1"]>>

\* C12: a direct save_memory(force=False) on a store that is not dirty writes
\* nothing to the durable tier and leaves memory, the dirty flag and the
\* counter as they were; save_memory(force=True) on a store that is not dirty
\* does attempt the write, and with a reachable durable tier the document it
\* leaves there is the memory.
C12_FlushNoop ==
    [][(calls' = calls + 1 /\ last_call'.op = "save_memory" /\ ~_dirty) =>
          /\ (last_call'.arg = None =>
                 /\ save_outcome' = "noop"
                 /\ durable' = durable
                 /\ memory' = memory
                 /\ _dirty' = _dirty
                 /\ _operations_since_save' = _operations_since_save)
          /\ (last_call'.arg = "force" => save_outcome' # "noop")
          /\ (last_call'.arg = "force" /\ fs_present /\ gcs_up =>
                 /\ save_outcome' = "ok"
                 /\ durable' = Doc(memory'))]_vars

\* C12 witness: on a store that no call has mutated, an unforced save was
\* followed by a forced one, which wrote the document.
C12_Witness ==
    /\ mutations = 0
    /\ prev_call.op = "save_memory" /\ prev_call.arg = None
    /\ last_call.op = "save_memory" /\ last_call.arg = "force"
    /\ save_outcome = "ok"
    /\ durable = Doc(memory)

\* C14: load_table_from_bigquery(table, where, use_cache=True, T) returns the
\* cached rows, without a provider query, exactly when an entry for that query
\* is cached and its age in minutes is below T; the cache is then left as it
\* is.  Otherwise the provider is queried, and the rows it returns replace the
\* entry and the time of the call replaces its timestamp.
C14_LoaderFreshness ==
    [][(loader_calls' = loader_calls + 1 /\ loader_last'.op = "load"
            /\ loader_last'.use_cache) =>
          LET k == _get_cache_key(loader_last'.table, loader_last'.where)
              fresh == /\ k \in DOMAIN _memory_cache
                       /\ k \in DOMAIN _cache_metadata
                       /\ now - _cache_metadata[k] < loader_last'.ttl
          IN /\ (loader_ret'.source = "cache") <=> fresh
             /\ fresh => /\ loader_ret'.rows = _memory_cache[k]
                         /\ UNCHANGED <<_memory_cache, _cache_metadata>>
             /\ ~fresh => loader_ret'.source \in {"provider", "raised"}
             /\ loader_ret'.source = "provider" =>
                    /\ loader_ret'.rows.fetched_at = now
                    /\ _memory_cache'[k] = loader_ret'.rows
                    /\ _cache_metadata'[k] = now]_vars

\* C14 witness: a load with a TTL of 2 minutes was answered from an entry
\* cached one minute before.
C14_Witness ==
    /\ loader_last.op = "load" /\ loader_last.use_cache
    /\ loader_last.ttl = 2
    /\ loader_ret.source = "cache"
    /\ loader_last.at - loader_ret.rows.fetched_at = 1

\* Two filter dictionaries hold the same key/value pairs.
SamePairs(f, g) == {f[i] : i \in 1..Len(f)} = {g[i] : i \in 1..Len(g)}

\* C11: the cache key of a smart_query(intent, filters, max_rows) call is the
\* key of every filter dictionary with the same key/value pairs, whatever their
\* insertion order; so when an entry cached for any such dictionary is in the
\* store, the call is answered from it.
C11_KeyDeterminism ==
    [][(tool_last'.op = "smart_query" /\ _query_count' = _query_count + 1) =>
          \A f \in FilterDicts :
              SamePairs(f, tool_last'.filters) =>
                 LET k == SmartQueryKey(tool_last'.arg, f, tool_last'.max_rows)
                 IN /\ k = tool_last'.cache_key
                    /\ (k \in DOMAIN _in_memory_cache \/ k \in DOMAIN memory.query_cache)
                          => tool_last'.from_cache]_vars

\* C11 witness: a query filtered by ticker then sentiment read the files and
\* cached its rows; the same query with the filters given as sentiment then
\* ticker was answered from that entry.
C11_Witness ==
    /\ tool_prev.op = "smart_query" /\ ~tool_prev.from_cache
    /\ tool_prev.filters = << <<"ticker", "AAPL">>, <<"sentiment", "negative">> >>
    /\ tool_last.op = "smart_query" /\ tool_last.from_cache
    /\ tool_last.filters = << <<"sentiment", "negative">>, <<"ticker", "AAPL">> >>
    /\ tool_last.cache_key = tool_prev.cache_key
    /\ Len(tool_ret.rows) = 1

\* C13 (as claimed): the dictionary analyze_news_headline returns reports
\* performance.cache_hit true when the call was answered from the cache, and
\* false when it queried the data.
C13_CacheHitFlag ==
    tool_last.op = "analyze_news_headline" =>
        (tool_ret.performance.cache_hit <=> tool_last.from_cache)

\* The call of bond_call has returned, its instrument is known and both of its
\* loads succeeded.
BondDataLoaded ==
    /\ bond_call.op = "call"
    /\ bond_ret.status # "none"
    /\ treasury_column_map(Upper(bond_call.instrument)) # None
    /\ bond_call.fed_ok /\ bond_call.market_ok

C16_StrongOnlyAbove ==
    (/\ bond_ret.status = "success"
     /\ bond_ret.trading_signal.signal = "SELL_VOLATILITY"
     /\ bond_ret.trading_signal.strength = "STRONG") =>
        LET m == bond_ret.volatility_metrics
            n == m.data_points
            d == 2 * n * m.current_volatility - 3 * m.volatility_sum
        IN /\ d > 0
           /\ (n - 1) * d * d > 9 * n * m.volatility_spread

RECURSIVE Gcd(_, _)
Gcd(a, b) == IF b = 0 THEN a ELSE Gcd(b, a % b)

\* The fraction num/den in lowest terms.
Reduced(q) ==
    LET g == Gcd(q.num, q.den)
    IN IF g = 0 THEN q ELSE [num |-> q.num \div g, den |-> q.den \div g]

RECURSIVE RatLeq(_, _, _, _)
\* a/b <= c/d for a, c >= 0 and b, d > 0, by comparing continued fractions.
RatLeq(a, b, c, d) ==
    IF a \div b < c \div d THEN TRUE
    ELSE IF a \div b > c \div d THEN FALSE
    ELSE IF a % b = 0 THEN TRUE
    ELSE IF c % d = 0 THEN FALSE
    ELSE RatLeq(d, c % d, b, a % b)

\* C17 (as claimed): in every analysis data_completeness, event_coverage and
\* volatility_consistency lie in [0,1], and so does the overall confidence
\* 0.4 * completeness + 0.3 * coverage + 0.3 * consistency.  With
\* consistency = 1 - sqrt(cv2): consistency >= 0 iff cv2 <= 1, and
\* overall >= 0 iff 9 * cv2 <= (4 * completeness + 3 * coverage + 3)^2.
C17_ConfidenceBounded ==
    bond_ret.status = "success" =>
        LET b == bond_ret.confidence_breakdown
            sc == Reduced(b.data_completeness)
            ec == Reduced(b.event_coverage)
            cv2 == Reduced(b.volatility_consistency.cv2)
            sum == Reduced([num |-> 4 * sc.num * ec.den + 3 * ec.num * sc.den
                                      + 3 * sc.den * ec.den,
                            den |-> sc.den * ec.den])
        IN /\ 0 <= sc.num /\ sc.num <= sc.den
           /\ 0 <= ec.num /\ ec.num <= ec.den
           /\ 0 <= cv2.num /\ cv2.num <= cv2.den
           /\ RatLeq(9 * cv2.num, cv2.den, sum.num * sum.num, sum.den * sum.den)

\* The call was made with a constant series.
FlatCall == BondDataLoaded /\ bond_call.has_column /\ Len(bond_call.series) = 1

\* What C18 asks of the result: no volatility, HOLD, the neutral consistency.
FlatOutcome ==
    /\ bond_ret.status = "success"
    /\ bond_ret.volatility_metrics.current_volatility = 0
    /\ bond_ret.volatility_metrics.volatility_sum = 0
    /\ bond_ret.trading_signal = [signal |-> "HOLD", strength |-> "NEUTRAL"]
    /\ bond_ret.confidence_breakdown.volatility_consistency.cv2 = [num |-> 1, den |-> 4]

C19_NoDataStatus ==
    (BondDataLoaded /\ TotalRows(bond_call.series) < 30) =>
        /\ bond_ret.status = "no_data"
        /\ "trading_signal" \notin DOMAIN bond_ret

\* C20: a simulate_bond_risk call with a valid regime returns status ok with
\* one entry for every tenor of the request, whatever their order: an error
\* entry for a tenor outside TENOR_MAP, an error entry for a valid tenor whose
\* simulation raised, and the metrics for every other valid tenor; no entry
\* is missing because of an error on another tenor.
C20_TenorIsolation ==
    (sim_call.op = "call" /\ sim_ret.status # "none"
        /\ sim_call.RegimeHint \in {"calm", "normal", "stress"}) =>
        /\ sim_ret.status = "ok"
        /\ LET res == sim_ret.simulation_results
               asked == {sim_call.ForecastedYields[i] :
                            i \in DOMAIN sim_call.ForecastedYields}
           IN /\ DOMAIN res = asked
              /\ \A t \in asked :
                    IF t \in {"5Y", "10Y", "30Y"} /\ t \notin sim_call.raising
                    THEN /\ "error" \notin DOMAIN res[t]
                         /\ res[t].SimCount = 10000
                    ELSE DOMAIN res[t] = {"error"}

\* C20 witness: a request whose first tenor is invalid and whose second
\* raises got both error entries and the metrics of its third tenor.
C20_Witness ==
    /\ sim_call.op = "call"
    /\ sim_call.ForecastedYields = <<"2Y", "5Y", "10Y">>
    /\ sim_call.raising = {"5Y"}
    /\ sim_ret.status = "ok"
    /\ DOMAIN sim_ret.simulation_results["2Y"] = {"error"}
    /\ DOMAIN sim_ret.simulation_results["5Y"] = {"error"}
    /\ sim_ret.simulation_results["10Y"].SimCount = 10000

\* C21: a simulate_bond_risk call whose regime_hint is not calm, normal or
\* stress returns a batch result that holds an error entry for every tenor
\* of the request.
C21_InvalidRegimePerTenor ==
    (sim_call.op = "call" /\ sim_ret.status # "none"
        /\ sim_call.RegimeHint \notin {"calm", "normal", "stress"}) =>
        /\ "simulation_results" \in DOMAIN sim_ret
        /\ LET res == sim_ret.simulation_results
               asked == {sim_call.ForecastedYields[i] :
                            i \in DOMAIN sim_call.ForecastedYields}
           IN /\ DOMAIN res = asked
              /\ \A t \in asked : DOMAIN res[t] = {"error"}

\* C22: simulate_bond_risk accepts a seed, and two calls with the same
\* forecasted yields, regime hint, historical data and seed both return
\* status ok with the same VaR_95 and yield range for every tenor.
C22_SeededDeterminism ==
    (sim_call.op = "call" /\ sim_call.seed # <<>>
        /\ sim_prev.status # "none" /\ sim_ret.status # "none"
        /\ sim_call.RegimeHint \in {"calm", "normal", "stress"}) =>
        /\ sim_prev.status = "ok"
        /\ sim_ret.status = "ok"
        /\ sim_ret.simulation_results = sim_prev.simulation_results

\* C22, for calls without a seed: two calls with the same arguments and
\* historical data return the same simulation results.
C22_UnseededRepeatable ==
    (sim_call.op = "call" /\ sim_call.seed = <<>>
        /\ sim_prev.status = "ok" /\ sim_ret.status = "ok") =>
        sim_ret.simulation_results = sim_prev.simulation_results

\* The tenors of the call that are in TENOR_MAP and whose simulation did not
\* raise.
SimulatedTenors ==
    {sim_call.ForecastedYields[i] : i \in DOMAIN sim_call.ForecastedYields}
        \cap ({"5Y", "10Y", "30Y"} \ sim_call.raising)

\* The standard deviation of the daily differences of the call's history is
\* a positive number.
PositiveStd == LET std == Std(Diff(sim_call.history)) IN ~std.nan /\ std.v > 0

C24_RegimeMonotonePositive ==
    (sim_call.op = "call" /\ sim_ret.status = "ok" /\ SimulatedTenors # {}
        /\ PositiveStd) =>
        LET h == sim_call.history
            std == Std(Diff(h))
        IN /\ FloatLt(Sigma(h, "normal"), Sigma(h, "stress"))
           /\ FloatLt(Sigma(h, "calm"), Sigma(h, "normal"))
           /\ Sigma(h, "stress").v = std.v * 18
           /\ Sigma(h, "normal").v = std.v * 10
           /\ Sigma(h, "calm").v = std.v * 7

\* C24 witness: a tenor simulated under the stress regime on a history whose
\* daily differences have standard deviation 2, with sigma = 3.6.
C24_Witness ==
    /\ sim_call.op = "call"
    /\ sim_ret.status = "ok"
    /\ sim_call.RegimeHint = "stress"
    /\ sim_call.history = <<0, 0, 2, 6>>
    /\ "10Y" \in SimulatedTenors
    /\ Sigma(sim_call.history, sim_call.RegimeHint) = Float(36)

\* C24: for a tenor that was simulated, whatever the historical data,
\* sigma(stress) > sigma(normal) > sigma(calm).
C24_RegimeMonotone ==
    (sim_call.op = "call" /\ sim_ret.status = "ok" /\ SimulatedTenors # {}) =>
        LET h == sim_call.history
        IN /\ FloatLt(Sigma(h, "normal"), Sigma(h, "stress"))
           /\ FloatLt(Sigma(h, "calm"), Sigma(h, "normal"))

\* The results of the sinks of the call that were configured and did not
\* raise, Pub/Sub first.
SucceededSinks ==
    (IF alert_call.ALERTS_PUBSUB_TOPIC = "set" /\ ~alert_call.pubsub_raises
     THEN <<[status |-> "published"]>> ELSE <<>>)
    \o (IF alert_call.ALERTS_WEBHOOK_URL = "set" /\ ~alert_call.webhook_raises
        THEN <<[status |-> "webhook_posted"]>> ELSE <<>>)

\* What C25 says of a call that returned: the event is of type alert_raised
\* and carries the alert, both sinks were attempted in the order Pub/Sub,
\* webhook when both are configured, and outcomes lists the results of the
\* sinks that succeeded, in that order.
EventAsClaimed ==
    /\ alert_ret.status = "returned"
    /\ alert_ret.event.type = "alert_raised"
    /\ alert_ret.event.payload = alert_call.alert
    /\ (alert_call.ALERTS_PUBSUB_TOPIC = "set" /\ alert_call.ALERTS_WEBHOOK_URL = "set")
          => alert_ret.attempts = <<"pubsub", "webhook">>
    /\ alert_ret.event.outcomes = SucceededSinks

\* C25: every publish_alert_event call returns an event of type alert_raised
\* that carries the alert; with both sinks configured both are attempted,
\* Pub/Sub first, whatever the other does, and outcomes lists the results of
\* the sinks that succeeded, in that order.
C25_AlwaysEvent ==
    (alert_call.op = "call" /\ alert_ret.status # "none") => EventAsClaimed

\* C25, for a process in which both settings have been assigned (to a value
\* or to nothing): the call returns the event as claimed.
C25_EventWhenAssigned ==
    (alert_call.op = "call" /\ alert_ret.status # "none"
        /\ alert_call.ALERTS_PUBSUB_TOPIC # "missing"
        /\ alert_call.ALERTS_WEBHOOK_URL # "missing") => EventAsClaimed

\* The index labels of the input rows that have both a date and a close.
CompleteRows ==
    {i \in DOMAIN clean_call.df :
        to_datetime(clean_call.df[i].date) # <<>> /\ clean_call.df[i].close # <<>>}

\* The returned frame is in ascending date order, has no row without a date
\* or a close, and has at most one row per date.
SortedAndUnique ==
    LET out == clean_ret.df
    IN /\ \A i \in DOMAIN out : out[i].date # <<>> /\ out[i].close # <<>>
       /\ \A i, j \in DOMAIN out : i < j => out[i].date[1] < out[j].date[1]

\* C26: clean_price_dataframe returns a series in ascending date order with
\* no row missing a date or a close and at most one row per date, and the
\* row retained for a date is the last of the input rows of that date (among
\* those that have a date and a close).
C26_LastWins ==
    (clean_call.op = "call" /\ clean_ret.status # "none") =>
        /\ SortedAndUnique
        /\ \A i \in DOMAIN clean_ret.df :
              LET row == clean_ret.df[i]
              IN \A k \in CompleteRows :
                    to_datetime(clean_call.df[k].date) = row.date => k <= row.index

\* C26, without the last-wins part: the returned frame is in ascending date
\* order, complete and unique per date, and holds one input row for every
\* date that has a complete row.
C26_OrderedOnePerDate ==
    (clean_call.op = "call" /\ clean_ret.status # "none") =>
        /\ SortedAndUnique
        /\ \A i \in DOMAIN clean_ret.df :
              /\ clean_ret.df[i].index \in CompleteRows
              /\ to_datetime(clean_call.df[clean_ret.df[i].index].date) = clean_ret.df[i].date
        /\ \A k \in CompleteRows :
              \E i \in DOMAIN clean_ret.df :
                  clean_ret.df[i].date = to_datetime(clean_call.df[k].date)

\* The fields of a memory document that C27 names: query_cache,
\* analyzed_tickers, insights and the statistics.
PersistedFields(m) == [m EXCEPT !.last_updated = 0]

\* C27: a save that succeeds leaves the durable document equal to the memory
\* document, and every other step that changes a persisted field of the
\* memory document leaves the store dirty; so a store that is not dirty
\* after a successful save holds in memory exactly what is durable,
\* cache_hits included.
C27_CleanMeansPersisted ==
    [][fs_present =>
          /\ save_outcome' = "ok" => durable' = Doc(memory')
          /\ (save_outcome' # "ok" /\ PersistedFields(memory') # PersistedFields(memory))
                => _dirty']_vars

\* A flush triggered by a mutating call has failed and nothing has been
\* saved since.
FlushPending ==
    /\ fs_present
    /\ _dirty
    /\ _operations_since_save >= 3

\* Everything is durable: the store is not dirty, the counter is 0 and the
\* durable document is the memory document.
Flushed ==
    /\ ~_dirty
    /\ _operations_since_save = 0
    /\ unflushed = 0
    /\ durable = Doc(memory)

\* While a flush is pending, a mutating call attempts the flush again: the
\* attempt fails and leaves the flush pending when the tier is down, and
\* writes the whole memory document when the tier accepts writes.
RetryStep ==
    (FlushPending /\ calls' = calls + 1 /\ last_call'.op \in MutatingOps) =>
        /\ save_outcome' \in {"ok", "failed"}
        /\ ~gcs_up => (_dirty' /\ _operations_since_save' = _operations_since_save + 1)
        /\ gcs_up => (save_outcome' = "ok" /\ ~_dirty' /\ _operations_since_save' = 0
                        /\ durable' = Doc(memory'))

CachedAfterUncached ==
    /\ _query_count' = _query_count + 1
    /\ tool_last.op = "smart_query"
    /\ ~tool_last.from_cache
    /\ tool_last'.from_cache
    /\ tool_last'.arg = tool_last.arg
    /\ SamePairs(tool_last'.filters, tool_last.filters)
    /\ tool_last'.max_rows = tool_last.max_rows

\* C29: a smart_query call answered from the cache returns exactly the rows
\* that the preceding uncached call with the same intent, filters and
\* max_rows returned, whatever their number.
C29_CacheTransparency ==
    [][CachedAfterUncached => tool_ret'.rows = tool_ret.rows]_vars

\* C29, for results the cache holds whole: when the uncached call returned at
\* most 1000 rows the cached call returns the same rows, and when it returned
\* more the cached call returns the first 1000 of them.
C29_TransparentUpToHead ==
    [][CachedAfterUncached =>
          /\ Len(tool_ret.rows) <= 1000 => tool_ret'.rows = tool_ret.rows
          /\ Len(tool_ret.rows) > 1000 => tool_ret'.rows = SubSeq(tool_ret.rows, 1, 1000)]_vars

\* C30: a load answered from the cache returns rows that were fetched for the
\* (table_name, where_clause) pair of the call, because two different pairs
\* never have the same cache key.
C30_NoKeyCollision ==
    (loader_last.op = "load" /\ loader_ret.source = "cache") =>
        /\ loader_ret.rows.table = loader_last.table
        /\ loader_ret.rows.where = loader_last.where

\* C30, for the pairs that differ in more than None against 'full': their
\* keys differ.
C30_OtherKeysDiffer ==
    \A t1 \in Tables, t2 \in Tables, w1 \in KeyWheres, w2 \in KeyWheres :
        (_get_cache_key(t1, w1) = _get_cache_key(t2, w2)) =>
            /\ t1 = t2
            /\ w1 = w2 \/ {w1, w2} = {None, "full"}

====
